---------------------------- MODULE Spec2Model ----------------------------
(***************************************************************************)
(* DSATutor: the hint progression tracker (agents/hintAgent.py), the       *)
(* session/progress tracker (agents/teacherAgent.py, orchestrator.py) and  *)
(* the solution evaluator (agents/EvalAgent.py), as one state machine.     *)
(* Every public operation of DSATutorSystem is one action; the external    *)
(* text-generation service is an input of the action: either the call      *)
(* raises, or it returns a text drawn from a small set of response shapes. *)
(***************************************************************************)
EXTENDS Integers, Sequences, FiniteSets, TLC

(***************************************************************************)
(* Bounds of the model.                                                    *)
(***************************************************************************)
\* get_hint is not taken once the level it would use reaches this value
MaxStored == 5
\* start_session is not taken for a student who already has this many sessions
MaxSessions == 3
\* number of external calls that are allowed to fail in one behaviour
MaxExtFailures == 1

(***************************************************************************)
(* Program constants.                                                      *)
(***************************************************************************)
\* config.MAX_HINT_LEVEL and the literal "max_level": 3 of the hint result
MAX_HINT_LEVEL == 3
\* thresholds of the progress report
STRONG_THRESHOLD == 70
WEAK_THRESHOLD == 50
BASELINE_SESSIONS == 3
\* the literal pass mark of evaluate_solution
PASS_SCORE == 70

Max(a, b) == IF a >= b THEN a ELSE b
Min(a, b) == IF a <= b THEN a ELSE b

\* Python's None
None == [t |-> "None"]

(***************************************************************************)
(* knowledge_base.Topic / Difficulty                                       *)
(***************************************************************************)
\* the values of the Topic enum, in declaration order (the order in which
\* the dict comprehension of start_teaching_session inserts them)
TopicList ==
    << "Arrays", "Linked Lists", "Trees", "Graphs", "Sorting", "Searching",
       "Dynamic Programming", "Recursion", "Backtracking", "Queues", "Stacks" >>

Topic == { TopicList[i] : i \in 1..Len(TopicList) }

Difficulty == { "Easy", "Medium", "Hard" }

(***************************************************************************)
(* Inputs of the callers.                                                  *)
(***************************************************************************)
Students == { "s1", "s2" }

\* difficulty strings a caller passes to start_learning_session; "Expert" is
\* not a value of the Difficulty enum
DifficultyArgs == { "Medium", "Expert" }

\* the topic list a caller passes (the UI default)
TopicArgs == { << "Arrays", "Linked Lists" >> }

\* problems a caller holds: one with an id, two distinct ones without
Problems ==
    { [id |-> "p1", title |-> "Two Sum"],
      [title |-> "Untitled A"],
      [title |-> "Untitled B"] }

\* hint_level arguments a caller passes: below, inside and above 0..3
RequestLevels == { -1, 0, 1, 2, 3, 4 }

VARIABLES
    hint_history,       \* HintAgent.hint_history: problem id -> level
    student_progress,   \* TeacherAgent.student_progress: student id -> record
    session_history,    \* DSATutorSystem.session_history: list of entries
    result,             \* what the last operation returned or raised
    sessions_returned,  \* per student: start_learning_session calls that returned
    ext_failures,       \* external calls that raised so far
    config,             \* the settings of config.py a deployment can edit
    threads             \* per request thread: where it is in its handler, its locals

vars == << hint_history, student_progress, session_history, result,
           sessions_returned, ext_failures, config, threads >>

\* config.py line 62; no module of the program imports it
MIN_SCORE_PASS == 70

\* the settings as config.py ships them
DefaultConfig == [MIN_SCORE_PASS |-> MIN_SCORE_PASS]

\* the request threads of the UI server; a thread that runs no handler
Threads == { "t1", "t2" }
Idle == [pc |-> "idle"]
IdleThreads == [t \in Threads |-> Idle]

(***************************************************************************)
(* dict helpers                                                            *)
(***************************************************************************)
\* d[k] = v on a dict held as a function: insert or overwrite
DictSet(d, k, v) == [x \in (DOMAIN d) \cup {k} |-> IF x = k THEN v ELSE d[x]]

\* d.get(k, default)
DictGet(d, k, default) == IF k \in DOMAIN d THEN d[k] ELSE default

EmptyDict == [x \in {} |-> 0]

\* line 17 (mutation: a problem without an id is tracked under its title)
ProblemIdOrTitle(problem) == DictGet(problem, "id", problem.title)

(***************************************************************************)
(* HintAgent.get_progressive_hints                                         *)
(***************************************************************************)
\* problem.get("id", "unknown")
ProblemId(problem) == DictGet(problem, "id", "unknown")

\* lines 20-21: the entry is created at 0 before anything else happens
HintHistoryInit(problem_id) ==
    IF problem_id \notin DOMAIN hint_history
    THEN DictSet(hint_history, problem_id, 0)
    ELSE hint_history

\* line 23 (mutation: the requested level is used as it is)
CurrentLevelRequested(history, problem_id, hint_level) == hint_level

\* line 23
CurrentLevel(history, problem_id, hint_level) ==
    Max(history[problem_id], hint_level)

\* lines 26-33 (mutation: the last branch tests for level 3 and nothing
\* handles a level above it)
HintClassNoTerminal(current_level) ==
    IF current_level = 0 THEN "conceptual"
    ELSE IF current_level = 1 THEN "approach"
    ELSE IF current_level = 2 THEN "implementation"
    ELSE IF current_level = 3 THEN "near_solution"
    ELSE "none"

\* lines 26-33: which prompt produces the hint text
HintClass(current_level) ==
    IF current_level = 0 THEN "conceptual"
    ELSE IF current_level = 1 THEN "approach"
    ELSE IF current_level = 2 THEN "implementation"
    ELSE "near_solution"

\* line 36 (mutation: the entry is incremented in place, from the value it
\* has at the time of the write)
HintHistoryIncrement(history, problem_id, current_level) ==
    DictSet(history, problem_id, history[problem_id] + 1)

\* line 36 (mutation: the history is replaced by one that holds the entry
\* of this problem alone)
HintHistoryReplace(history, problem_id, current_level) ==
    DictSet(EmptyDict, problem_id, current_level + 1)

\* line 36
HintHistoryUpdate(history, problem_id, current_level) ==
    DictSet(history, problem_id, current_level + 1)

\* get_progressive_hints (mutation: the level is stored before the prompt
\* call is made, so that a failed call has advanced it)
get_hint_store_first(problem, hint_level, llm_ok) ==
    LET problem_id == ProblemId(problem)
        h0 == HintHistoryInit(problem_id)
        current_level == CurrentLevel(h0, problem_id, hint_level)
    IN  /\ current_level < MaxStored
        /\ llm_ok \/ ext_failures < MaxExtFailures
        /\ hint_history' = HintHistoryUpdate(h0, problem_id, current_level)
        /\ IF llm_ok
           THEN /\ result' = [op |-> "get_hint", status |-> "ok",
                              problem_id |-> problem_id,
                              hint |-> HintClass(current_level),
                              hint_level |-> current_level,
                              max_level |-> MAX_HINT_LEVEL,
                              next_level_available |->
                                  (current_level < MAX_HINT_LEVEL)]
                /\ UNCHANGED ext_failures
           ELSE /\ result' = [op |-> "get_hint", status |-> "raised",
                              problem_id |-> problem_id,
                              exc |-> "ExternalCallError"]
                /\ ext_failures' = ext_failures + 1
        /\ UNCHANGED << student_progress, session_history, sessions_returned,
                        config, threads >>

\* DSATutorSystem.get_hint -> HintAgent.get_progressive_hints; llm_ok says
\* whether self.llm.invoke of the level's prompt returns or raises
get_hint(problem, hint_level, llm_ok) ==
    LET problem_id == ProblemId(problem)
        h0 == HintHistoryInit(problem_id)
        current_level == CurrentLevel(h0, problem_id, hint_level)
    IN  /\ current_level < MaxStored
        /\ llm_ok \/ ext_failures < MaxExtFailures
        /\ IF llm_ok
           THEN /\ hint_history' = HintHistoryUpdate(h0, problem_id, current_level)
                /\ result' = [op |-> "get_hint", status |-> "ok",
                              problem_id |-> problem_id,
                              hint |-> HintClass(current_level),
                              hint_level |-> current_level,
                              max_level |-> MAX_HINT_LEVEL,
                              next_level_available |->
                                  (current_level < MAX_HINT_LEVEL)]
                /\ UNCHANGED ext_failures
           ELSE /\ hint_history' = h0
                /\ result' = [op |-> "get_hint", status |-> "raised",
                              problem_id |-> problem_id,
                              exc |-> "ExternalCallError"]
                /\ ext_failures' = ext_failures + 1
        /\ UNCHANGED << student_progress, session_history, sessions_returned,
                        config, threads >>

\* main.py reset_hints (mutation: a reset of the id-carrying problems only,
\* the entry of the id-less ones is kept)
reset_hints_keep_unknown ==
    /\ hint_history' = [x \in (DOMAIN hint_history) \cap {"unknown"} |->
                           hint_history[x]]
    /\ result' = [op |-> "reset_hints", status |-> "ok"]
    /\ UNCHANGED << student_progress, session_history, sessions_returned,
                    ext_failures, config, threads >>

\* main.py reset_hints: tutor.hint_agent.hint_history = {}
reset_hints ==
    /\ hint_history' = EmptyDict
    /\ result' = [op |-> "reset_hints", status |-> "ok"]
    /\ UNCHANGED << student_progress, session_history, sessions_returned,
                    ext_failures, config, threads >>

(***************************************************************************)
(* TeacherAgent.start_teaching_session / start_learning_session            *)
(***************************************************************************)
\* lines 35-40 of teacherAgent.py
NewProgress ==
    [total_sessions |-> 0,
     topics_mastery |-> [t \in Topic |-> 0],
     weak_areas |-> << >>,
     learning_path |-> << >>]

\* lines 34-42: initialise if unseen, then total_sessions += 1
ProgressAfterStart(progress, student_id) ==
    LET p0 == IF student_id \notin DOMAIN progress
              THEN DictSet(progress, student_id, NewProgress)
              ELSE progress
    IN  [p0 EXCEPT ![student_id].total_sessions = @ + 1]

\* session_id = str(uuid.uuid4()): an opaque fresh value, never compared or
\* looked up; it escapes only through the returned record and the history
\* entry, so the k-th entry of the history is given the name k
SessionId == Len(session_history) + 1

\* ext_ok: the knowledge-base queries of _generate_learning_plan and the
\* llm call of _generate_welcome_message all return (else one of them raises)
start_learning_session(student_id, topics, difficulty, ext_ok) ==
    /\ student_id \in DOMAIN student_progress
          => student_progress[student_id].total_sessions < MaxSessions
    /\ ext_ok \/ ext_failures < MaxExtFailures
    /\ IF difficulty \notin Difficulty
       THEN \* Difficulty(difficulty) raises before the teacher is called
            /\ ext_ok
            /\ result' = [op |-> "start_session", status |-> "raised",
                          student_id |-> student_id, exc |-> "ValueError"]
            /\ UNCHANGED << student_progress, session_history,
                            sessions_returned, ext_failures >>
       ELSE /\ student_progress' = ProgressAfterStart(student_progress, student_id)
            /\ IF ext_ok
               THEN /\ session_history' = Append(session_history,
                           [session_id |-> SessionId,
                            topics |-> topics,
                            difficulty |-> difficulty])
                    /\ sessions_returned' =
                           [sessions_returned EXCEPT ![student_id] = @ + 1]
                    /\ result' = [op |-> "start_session", status |-> "ok",
                                  student_id |-> student_id,
                                  session_id |-> SessionId]
                    /\ UNCHANGED ext_failures
               ELSE /\ result' = [op |-> "start_session", status |-> "raised",
                                  student_id |-> student_id,
                                  exc |-> "ExternalCallError"]
                    /\ ext_failures' = ext_failures + 1
                    /\ UNCHANGED << session_history, sessions_returned >>
    /\ UNCHANGED << hint_history, config, threads >>

(***************************************************************************)
(* DSATutorSystem.get_student_progress / _generate_recommendations         *)
(***************************************************************************)
RECURSIVE SumSeq(_)
SumSeq(s) == IF s = << >> THEN 0 ELSE Head(s) + SumSeq(Tail(s))

\* the values / items of topics_mastery in insertion order
MasteryValues(mastery) == [i \in 1..Len(TopicList) |-> mastery[TopicList[i]]]

\* lines 128-129
StrongAreas(mastery) ==
    SelectSeq(TopicList, LAMBDA t : mastery[t] >= STRONG_THRESHOLD)

\* lines 130-131
WeakAreas(mastery) ==
    SelectSeq(TopicList, LAMBDA t : mastery[t] < WEAK_THRESHOLD)

\* lines 124-125 and round(avg_mastery, 1); mastery values are whole numbers
AverageMastery(mastery) ==
    IF Len(TopicList) > 0
    THEN SumSeq(MasteryValues(mastery)) \div Len(TopicList)
    ELSE 0

\* s[:n]
Take(s, n) == SubSeq(s, 1, Min(n, Len(s)))

\* _generate_recommendations(progress): reads the stored record, whose
\* weak_areas is the list written at initialisation and which has no
\* strong_areas key
generate_recommendations(progress) ==
    LET weak == DictGet(progress, "weak_areas", << >>)
        strong == DictGet(progress, "strong_areas", << >>)
    IN  (IF progress.total_sessions < BASELINE_SESSIONS
         THEN << [kind |-> "baseline", names |-> << >>] >> ELSE << >>)
        \o (IF weak # << >>
            THEN << [kind |-> "focus", names |-> Take(weak, 3)] >> ELSE << >>)
        \o (IF strong # << >>
            THEN << [kind |-> "leverage", names |-> << strong[1] >>] >>
            ELSE << >>)

\* lines 116-140 (mutation: an unseen student gets an empty report)
ProgressReportEmpty(student_id) ==
    LET progress == DictGet(student_progress, student_id, NewProgress)
    IN  [op |-> "get_progress", status |-> "ok",
         student_id |-> student_id,
         total_sessions |-> progress.total_sessions,
         average_mastery |-> AverageMastery(progress.topics_mastery),
         strong_areas |-> StrongAreas(progress.topics_mastery),
         weak_areas |-> WeakAreas(progress.topics_mastery),
         recommendations |-> generate_recommendations(progress)]

\* lines 116-140
ProgressReport(student_id) ==
    IF student_id \notin DOMAIN student_progress
    THEN [op |-> "get_progress", status |-> "ok", student_id |-> student_id,
          error |-> "Student not found"]
    ELSE LET progress == student_progress[student_id]
         IN  [op |-> "get_progress", status |-> "ok",
              student_id |-> student_id,
              total_sessions |-> progress.total_sessions,
              average_mastery |-> AverageMastery(progress.topics_mastery),
              strong_areas |-> StrongAreas(progress.topics_mastery),
              weak_areas |-> WeakAreas(progress.topics_mastery),
              recommendations |-> generate_recommendations(progress)]

get_student_progress(student_id) ==
    /\ result' = ProgressReport(student_id)
    /\ UNCHANGED << hint_history, student_progress, session_history,
                    sessions_returned, ext_failures, config, threads >>

(***************************************************************************)
(* Python strings, as TLC strings                                          *)
(***************************************************************************)
\* s[i] as a one-character string
CharAt(s, i) == SubSeq(s, i, i)

\* sub in s
Contains(s, sub) ==
    \E i \in 1..(Len(s) - Len(sub) + 1) : SubSeq(s, i, i + Len(sub) - 1) = sub

IsSpace(c) == c \in { " ", "\n", "\t", "\r" }

RECURSIVE LStrip(_)
LStrip(s) ==
    IF Len(s) > 0 /\ IsSpace(CharAt(s, 1)) THEN LStrip(SubSeq(s, 2, Len(s))) ELSE s

RECURSIVE RStrip(_)
RStrip(s) ==
    IF Len(s) > 0 /\ IsSpace(CharAt(s, Len(s)))
    THEN RStrip(SubSeq(s, 1, Len(s) - 1)) ELSE s

\* s.strip()
Strip(s) == RStrip(LStrip(s))

UpperLetters == "ABCDEFGHIJKLMNOPQRSTUVWXYZ"
LowerLetters == "abcdefghijklmnopqrstuvwxyz"

LowerChar(c) ==
    IF \E i \in 1..Len(UpperLetters) : CharAt(UpperLetters, i) = c
    THEN CharAt(LowerLetters,
                CHOOSE i \in 1..Len(UpperLetters) : CharAt(UpperLetters, i) = c)
    ELSE c

\* s.lower()
RECURSIVE Lower(_)
Lower(s) ==
    IF Len(s) = 0 THEN s
    ELSE LowerChar(CharAt(s, 1)) \o Lower(SubSeq(s, 2, Len(s)))

\* len(s.split('\n'))
LineCount(s) == Cardinality({ i \in 1..Len(s) : CharAt(s, i) = "\n" }) + 1

(***************************************************************************)
(* Python values produced by json.loads                                    *)
(***************************************************************************)
JNull == [t |-> "null"]
JBool(b) == [t |-> "bool", b |-> b]
JNum(n) == [t |-> "num", n |-> n]
JStr(s) == [t |-> "str", s |-> s]
JList(xs) == [t |-> "list", xs |-> xs]
\* a dict, as the sequence of its (key, value) pairs in insertion order
JObj(kv) == [t |-> "obj", kv |-> kv]
KV(k, v) == [k |-> k, v |-> v]

\* bool(v)
Truthy(v) ==
    CASE v.t = "null" -> FALSE
      [] v.t = "bool" -> v.b
      [] v.t = "num"  -> v.n # 0
      [] v.t = "str"  -> Len(v.s) > 0
      [] v.t = "list" -> Len(v.xs) > 0
      [] v.t = "obj"  -> Len(v.kv) > 0

\* len(v) is defined (else TypeError)
HasLen(v) == v.t \in { "str", "list", "obj" }

\* len(v)
PyLen(v) ==
    CASE v.t = "str"  -> Len(v.s)
      [] v.t = "list" -> Len(v.xs)
      [] v.t = "obj"  -> Len(v.kv)

HasKey(obj, k) == \E i \in 1..Len(obj.kv) : obj.kv[i].k = k

\* obj.get(k, default) on a dict
ObjGet(obj, k, default) ==
    IF HasKey(obj, k)
    THEN obj.kv[CHOOSE i \in 1..Len(obj.kv) : obj.kv[i].k = k].v
    ELSE default

\* how a call ends: with a value, or with an exception
Ok(v) == [ok |-> TRUE, val |-> v]
Raise(e) == [ok |-> FALSE, exc |-> e]

\* iter(v): the elements a for loop visits, or TypeError
Iterate(v) ==
    CASE v.t = "list" -> Ok(v.xs)
      [] v.t = "str"  -> Ok([i \in 1..Len(v.s) |-> JStr(CharAt(v.s, i))])
      [] v.t = "obj"  -> Ok([i \in 1..Len(v.kv) |-> JStr(v.kv[i].k)])
      [] OTHER        -> Raise("TypeError")

(***************************************************************************)
(* The external text-generation call                                       *)
(*   [form |-> "raise"]           llm.invoke raises                         *)
(*   [form |-> "empty"]           returns ""                                *)
(*   [form |-> "prose"]           returns text holding no JSON              *)
(*   [form |-> "prose_json", val] returns a JSON text inside prose/fences   *)
(*   [form |-> "json", val]       returns exactly the JSON text of val      *)
(***************************************************************************)
LLMRaise == [form |-> "raise"]
TextEmpty == [form |-> "empty"]
TextProse == [form |-> "prose"]
TextProseJson(v) == [form |-> "prose_json", val |-> v]
TextJson(v) == [form |-> "json", val |-> v]

\* json.loads(text): only a text that is one JSON document parses
json_loads(text) ==
    IF text.form = "json" THEN Ok(text.val) ELSE Raise("JSONDecodeError")

(***************************************************************************)
(* EvaluatorAgent                                                          *)
(***************************************************************************)
\* lines 42-65 (mutation: the length test is made on the code as typed, not
\* on the stripped code)
check_syntax_unstripped(code) ==
    LET issues ==
            (IF Len(code) < 10
             THEN << "Code appears incomplete" >> ELSE << >>)
         \o (IF ~Contains(code, "def ") /\ ~Contains(code, "class ")
             THEN << "No function or class definition found" >> ELSE << >>)
         \o (IF Contains(code, "while True:") /\ ~Contains(code, "break")
             THEN << "Potential infinite loop detected" >> ELSE << >>)
         \o (IF Contains(code, "import ")
             THEN << "Note: Imports detected - ensure they're allowed" >>
             ELSE << >>)
    IN  [has_issues |-> Len(issues) > 0,
         issues |-> issues,
         code_length |-> Len(code),
         line_count |-> LineCount(code)]

\* lines 42-65 (mutation: the loop marker alone raises the warning, the
\* break marker is not looked for)
check_syntax_loop_only(code) ==
    LET issues ==
            (IF Len(Strip(code)) < 10
             THEN << "Code appears incomplete" >> ELSE << >>)
         \o (IF ~Contains(code, "def ") /\ ~Contains(code, "class ")
             THEN << "No function or class definition found" >> ELSE << >>)
         \o (IF Contains(code, "while True:")
             THEN << "Potential infinite loop detected" >> ELSE << >>)
         \o (IF Contains(code, "import ")
             THEN << "Note: Imports detected - ensure they're allowed" >>
             ELSE << >>)
    IN  [has_issues |-> Len(issues) > 0,
         issues |-> issues,
         code_length |-> Len(code),
         line_count |-> LineCount(code)]

\* lines 42-65 (mutation: the imports note is listed but does not count as
\* an issue)
check_syntax_note_free(code) ==
    LET flags ==
            (IF Len(Strip(code)) < 10
             THEN << "Code appears incomplete" >> ELSE << >>)
         \o (IF ~Contains(code, "def ") /\ ~Contains(code, "class ")
             THEN << "No function or class definition found" >> ELSE << >>)
         \o (IF Contains(code, "while True:") /\ ~Contains(code, "break")
             THEN << "Potential infinite loop detected" >> ELSE << >>)
        issues ==
            flags
         \o (IF Contains(code, "import ")
             THEN << "Note: Imports detected - ensure they're allowed" >>
             ELSE << >>)
    IN  [has_issues |-> Len(flags) > 0,
         issues |-> issues,
         code_length |-> Len(code),
         line_count |-> LineCount(code)]

\* lines 42-65
check_syntax(code) ==
    LET issues ==
            (IF Len(Strip(code)) < 10
             THEN << "Code appears incomplete" >> ELSE << >>)
         \o (IF ~Contains(code, "def ") /\ ~Contains(code, "class ")
             THEN << "No function or class definition found" >> ELSE << >>)
         \o (IF Contains(code, "while True:") /\ ~Contains(code, "break")
             THEN << "Potential infinite loop detected" >> ELSE << >>)
         \o (IF Contains(code, "import ")
             THEN << "Note: Imports detected - ensure they're allowed" >>
             ELSE << >>)
    IN  [has_issues |-> Len(issues) > 0,
         issues |-> issues,
         code_length |-> Len(code),
         line_count |-> LineCount(code)]

\* lines 96-102 (mutation: the default object approves the approach)
ConceptualDefaultApproving ==
    JObj(<< KV("approach_correct", JBool(TRUE)),
            KV("edge_cases_handled", JList(<< >>)),
            KV("time_complexity", JStr("Unknown")),
            KV("space_complexity", JStr("Unknown")),
            KV("potential_bugs", JList(<< JStr("Could not parse evaluation") >>)) >>)

ConceptualDefault ==
    JObj(<< KV("approach_correct", JBool(FALSE)),
            KV("edge_cases_handled", JList(<< >>)),
            KV("time_complexity", JStr("Unknown")),
            KV("space_complexity", JStr("Unknown")),
            KV("potential_bugs", JList(<< JStr("Could not parse evaluation") >>)) >>)

\* lines 91-102 (mutation: the parse is not guarded, its exception escapes)
run_conceptual_tests_unguarded(response) ==
    IF response.form = "raise" THEN Raise("ExternalCallError")
    ELSE LET parsed == json_loads(response)
         IN  IF parsed.ok THEN Ok(parsed.val) ELSE Raise(parsed.exc)

\* lines 91-102: the call itself is outside the try
run_conceptual_tests(response) ==
    IF response.form = "raise" THEN Raise("ExternalCallError")
    ELSE LET parsed == json_loads(response)
         IN  IF parsed.ok THEN Ok(parsed.val) ELSE Ok(ConceptualDefault)

FeedbackDefault ==
    JObj(<< KV("positives", JList(<< JStr("Attempted to solve the problem") >>)),
            KV("improvements_needed", JList(<< JStr("Code needs more work") >>)),
            KV("concept_gaps", JList(<< >>)),
            KV("specific_suggestions",
               JList(<< JStr("Review the problem requirements") >>)) >>)

\* lines 130-140
generate_feedback(response) ==
    IF response.form = "raise" THEN Raise("ExternalCallError")
    ELSE LET parsed == json_loads(response)
         IN  IF parsed.ok THEN Ok(parsed.val) ELSE Ok(FeedbackDefault)

\* lines 155-160 and 162-166 (mutation: one item already earns the 20)
CountPointsAny(n) == IF n >= 1 THEN 20 ELSE 0

\* lines 155-160 and 162-166: 20 for two or more, 10 for exactly one
CountPoints(n) == IF n >= 2 THEN 20 ELSE IF n = 1 THEN 10 ELSE 0

\* lines 142-168; .get on something that is no dict is an AttributeError,
\* len of something unsized a TypeError
calculate_score(syntax_check, test_results, feedback) ==
    IF test_results.t # "obj" THEN Raise("AttributeError")
    ELSE
    LET approach == ObjGet(test_results, "approach_correct", JBool(FALSE))
        edge_cases == ObjGet(test_results, "edge_cases_handled", JList(<< >>))
    IN  IF ~HasLen(edge_cases) THEN Raise("TypeError")
        ELSE IF feedback.t # "obj" THEN Raise("AttributeError")
        ELSE
        LET positives == ObjGet(feedback, "positives", JList(<< >>))
        IN  IF ~HasLen(positives) THEN Raise("TypeError")
            ELSE Ok(Min(100,
                      (IF ~syntax_check.has_issues THEN 20 ELSE 0)
                    + (IF Truthy(approach) THEN 40 ELSE 0)
                    + CountPoints(PyLen(edge_cases))
                    + CountPoints(PyLen(positives))))

\* lines 176-181 (mutation: "critical" is looked for in the text as typed)
GeneralSuggestionCased(improvement) ==
    [type |-> "general",
     suggestion |-> improvement.s,
     priority |-> IF Contains(improvement.s, "critical")
                  THEN "high" ELSE "medium"]

\* lines 176-181: one general suggestion per feedback improvement
GeneralSuggestion(improvement) ==
    [type |-> "general",
     suggestion |-> improvement.s,
     priority |-> IF Contains(Lower(improvement.s), "critical")
                  THEN "high" ELSE "medium"]

\* lines 203-206: {"type": "code", **sugg} for every element, or an
\* exception (swallowed by the caller) when the value is no list of dicts
CodeSuggestions(code_suggestions) ==
    LET it == Iterate(code_suggestions)
    IN  IF ~it.ok THEN Raise(it.exc)
        ELSE IF \E i \in 1..Len(it.val) : it.val[i].t # "obj"
        THEN Raise("TypeError")
        ELSE Ok([i \in 1..Len(it.val) |->
                    [type |-> ObjGet(it.val[i], "type", JStr("code")),
                     body |-> it.val[i]]])

\* lines 170-210; `called` tells whether the llm call was reached
suggest_improvements(feedback, response) ==
    LET it == Iterate(ObjGet(feedback, "improvements_needed", JList(<< >>)))
    IN  IF ~it.ok THEN [ok |-> FALSE, exc |-> it.exc, called |-> FALSE]
        ELSE IF \E i \in 1..Len(it.val) : it.val[i].t # "str"
        THEN [ok |-> FALSE, exc |-> "AttributeError", called |-> FALSE]
        ELSE IF response.form = "raise"
        THEN [ok |-> FALSE, exc |-> "ExternalCallError", called |-> TRUE]
        ELSE
        LET general == [i \in 1..Len(it.val) |-> GeneralSuggestion(it.val[i])]
            parsed == json_loads(response)
            code == IF parsed.ok THEN CodeSuggestions(parsed.val)
                    ELSE Raise(parsed.exc)
            suggestions == IF code.ok THEN general \o code.val ELSE general
        IN  [ok |-> TRUE, val |-> Take(suggestions, 5), called |-> TRUE]

\* lines 212-237 (mutation: the band edges are exclusive)
recommend_next_steps_exclusive(score) ==
    IF score > 90
    THEN << "Try a harder variation of this problem",
            "Explain your solution to reinforce learning",
            "Help another student with similar problem" >>
    ELSE IF score > 70
    THEN << "Review the suggested improvements",
            "Try the problem again with optimizations",
            "Practice similar problems" >>
    ELSE IF score > 50
    THEN << "Review the core concept",
            "Study the solution approach",
            "Try a simpler version first" >>
    ELSE << "Review fundamental concepts",
            "Start with easier problems",
            "Ask for more hints on this problem" >>

\* lines 212-237
recommend_next_steps(score) ==
    IF score >= 90
    THEN << "Try a harder variation of this problem",
            "Explain your solution to reinforce learning",
            "Help another student with similar problem" >>
    ELSE IF score >= 70
    THEN << "Review the suggested improvements",
            "Try the problem again with optimizations",
            "Practice similar problems" >>
    ELSE IF score >= 50
    THEN << "Review the core concept",
            "Study the solution approach",
            "Try a simpler version first" >>
    ELSE << "Review fundamental concepts",
            "Start with easier problems",
            "Ask for more hints on this problem" >>

\* line 38 (mutation: the pass mark itself does not pass)
CorrectnessStrict(score) == score > PASS_SCORE

\* line 38: "correctness": score >= 70
Correctness(score) == score >= PASS_SCORE

\* the locals of evaluate_solution when it returns or raises; a local that
\* was not reached is None
EvalRecord(args, status, exc, calls, syntax_check, test_results, feedback, score, improvements) ==
    [op |-> "evaluate_solution", args |-> args, status |-> status, exc |-> exc,
     calls |-> calls, syntax_check |-> syntax_check,
     test_results |-> test_results, feedback |-> feedback, score |-> score,
     improvements |-> improvements,
     correctness |-> IF status = "ok" THEN Correctness(score) ELSE None,
     next_steps |-> IF status = "ok" THEN recommend_next_steps(score) ELSE None]

\* lines 15-40; args.r1, args.r2, args.r3 are what the first, second and
\* third llm.invoke of the call do
evaluate_solution(args) ==
    LET syntax_check == check_syntax(args.code)
        test_results == run_conceptual_tests(args.r1)
    IN  IF ~test_results.ok
        THEN EvalRecord(args, "raised", test_results.exc, << "conceptual" >>,
                        syntax_check, None, None, None, None)
        ELSE
        LET feedback == generate_feedback(args.r2)
        IN  IF ~feedback.ok
            THEN EvalRecord(args, "raised", feedback.exc,
                            << "conceptual", "feedback" >>,
                            syntax_check, test_results.val, None, None, None)
            ELSE
            LET score == calculate_score(syntax_check, test_results.val,
                                         feedback.val)
            IN  IF ~score.ok
                THEN EvalRecord(args, "raised", score.exc,
                                << "conceptual", "feedback" >>,
                                syntax_check, test_results.val, feedback.val,
                                None, None)
                ELSE
                LET improvements == suggest_improvements(feedback.val, args.r3)
                    calls == << "conceptual", "feedback" >>
                             \o (IF improvements.called
                                 THEN << "improvements" >> ELSE << >>)
                IN  IF ~improvements.ok
                    THEN EvalRecord(args, "raised", improvements.exc, calls,
                                    syntax_check, test_results.val,
                                    feedback.val, score.val, None)
                    ELSE EvalRecord(args, "ok", None, calls, syntax_check,
                                    test_results.val, feedback.val, score.val,
                                    improvements.val)

\* lines 68-71 of orchestrator.py (mutation: a returned score is written to
\* the mastery of the first topic of every student with a record)
ReturnEvaluationRecordsMastery(r) ==
    /\ result' = r
    /\ LET failed == result'.status = "raised"
                     /\ result'.exc = "ExternalCallError"
       IN  /\ failed => ext_failures < MaxExtFailures
           /\ ext_failures' = IF failed THEN ext_failures + 1 ELSE ext_failures
    /\ student_progress' =
          [s \in DOMAIN student_progress |->
              IF result'.status = "ok"
              THEN [student_progress[s] EXCEPT
                      !.topics_mastery[TopicList[1]] = result'.score]
              ELSE student_progress[s]]
    /\ UNCHANGED << hint_history, session_history, sessions_returned,
                    config, threads >>

\* DSATutorSystem.evaluate_solution, given what the evaluator returns or
\* raises for the call
ReturnEvaluation(r) ==
    /\ result' = r
    /\ LET failed == result'.status = "raised"
                     /\ result'.exc = "ExternalCallError"
       IN  /\ failed => ext_failures < MaxExtFailures
           /\ ext_failures' = IF failed THEN ext_failures + 1 ELSE ext_failures
    /\ UNCHANGED << hint_history, student_progress, session_history,
                    sessions_returned, config, threads >>

EvaluateSolution(args) == ReturnEvaluation(evaluate_solution(args))

(***************************************************************************)
(* Inputs of evaluate_solution: student code and the three responses       *)
(***************************************************************************)
\* longest list an external response carries in a counted field
MaxListLen == 2

\* longest list of student actions passed to analyze_stuck_point
MaxActions == 2

\* a JSON list of n strings
StrList(prefix, n) == JList([i \in 1..n |-> JStr(prefix \o ToString(i))])

Codes ==
    { "x=1",
      "def f(a):\n  return a",
      "import os\ndef f(a):\n  return a",
      "def f():\n  while True:\n    pass",
      "   x=1      ",
      "def f(): 0",
      "def f():0",
      "class A:\n  pass",
      "import os;x=1" }

\* codes with an unconditional loop: a break statement, a break inside a
\* string literal only
LoopCodes ==
    { "def f():\n  while True:\n    break",
      "def f():\n  while True:\n    print('break')" }

GoodConceptual ==
    JObj(<< KV("approach_correct", JBool(TRUE)),
            KV("edge_cases_handled", StrList("edge case ", 2)) >>)

ConceptualValues ==
    { JObj(<< KV("approach_correct", JBool(b)),
              KV("edge_cases_handled", StrList("edge case ", n)) >>) :
        b \in BOOLEAN, n \in 0..MaxListLen }
    \cup { JObj(<< >>),
           JObj(<< KV("approach_correct", JBool(TRUE)),
                   KV("edge_cases_handled", JNum(2)) >>),
           JObj(<< KV("approach_correct", JStr("yes")),
                   KV("edge_cases_handled", JNull) >>),
           JList(<< >>),
           JNull }

ConceptualResponses ==
    { LLMRaise, TextEmpty, TextProse, TextProseJson(GoodConceptual) }
    \cup { TextJson(v) : v \in ConceptualValues }

ImprovementLists ==
    { JList(<< >>),
      JList(<< JStr("Fix the CRITICAL off-by-one bug"),
               JStr("Rename variables") >>),
      JList(<< JStr("Handle empty input"), JStr("critical: wrong result"),
               JStr("Add comments"), JStr("Use a set") >>),
      JList([i \in 1..6 |-> JStr("Improve step " \o ToString(i))]) }

GoodFeedback ==
    JObj(<< KV("positives", StrList("positive ", 2)),
            KV("improvements_needed", JList(<< >>)) >>)

FeedbackValues ==
    { JObj(<< KV("positives", StrList("positive ", n)),
              KV("improvements_needed", imp) >>) :
        n \in 0..MaxListLen, imp \in ImprovementLists }
    \cup { JObj(<< >>),
           JObj(<< KV("positives", JNum(3)) >>),
           JObj(<< KV("positives", JNull) >>),
           JObj(<< KV("positives", StrList("positive ", 1)),
                   KV("improvements_needed", JNum(1)) >>),
           JObj(<< KV("positives", StrList("positive ", 1)),
                   KV("improvements_needed", JList(<< JNum(1) >>)) >>),
           JList(<< JStr("good") >>) }

FeedbackResponses ==
    { LLMRaise, TextProse, TextProseJson(GoodFeedback) }
    \cup { TextJson(v) : v \in FeedbackValues }

CodeSuggestion(n) ==
    JObj(<< KV("change", JStr("change " \o ToString(n))),
            KV("reason", JStr("reason")),
            KV("example", JStr("example")) >>)

SuggestionResponses ==
    { LLMRaise, TextProse,
      TextProseJson(JList(<< CodeSuggestion(1) >>)),
      TextJson(JList(<< >>)),
      TextJson(JList(<< CodeSuggestion(1), CodeSuggestion(2) >>)),
      TextJson(JList(<< CodeSuggestion(1), JStr("use a dict") >>)),
      TextJson(CodeSuggestion(1)),
      TextJson(JNum(3)) }

EvalCall(code, r1, r2, r3) ==
    [problem |-> [id |-> "p1", title |-> "Two Sum"], code |-> code,
     explanation |-> None, r1 |-> r1, r2 |-> r2, r3 |-> r3]

\* every code, with an assessment that is good, unparseable or empty, every
\* feedback and no code-specific suggestion
CodeEvalArgs ==
    { EvalCall(c, r1, r2, TextJson(JList(<< >>))) :
        c \in Codes \cup LoopCodes,
        r1 \in { TextJson(GoodConceptual), TextProse, TextJson(JObj(<< >>)) },
        r2 \in FeedbackResponses }

\* every combination of code and responses
EvalArgs ==
    { EvalCall(c, r1, r2, r3) :
        c \in Codes, r1 \in ConceptualResponses, r2 \in FeedbackResponses,
        r3 \in SuggestionResponses }

\* the evaluations the callers of the whole system make
TutorEvalArgs ==
    { EvalCall("def f(a):\n  return a", TextJson(GoodConceptual),
               TextJson(GoodFeedback), TextJson(JList(<< >>))),
      EvalCall("x=1", TextProse, TextProse, TextProse),
      EvalCall("x=1", LLMRaise, TextProse, TextProse) }

\* evaluate_solution reads and writes no state: what it returns for the
\* callers' evaluations is fixed once
TutorEvaluations == { evaluate_solution(a) : a \in TutorEvalArgs }

(***************************************************************************)
(* main.py: the evaluate_solution handler of the UI                        *)
(***************************************************************************)
\* what the JSON panel holds as the problem: nothing, {}, a problem
UIProblems ==
    { JNull, JObj(<< >>),
      JObj(<< KV("id", JStr("p1")), KV("title", JStr("Two Sum")) >>) }

\* what the code editor holds: nothing, "", blanks, code
UICodes ==
    { JNull, JStr(""), JStr("   "), JStr("x=1"), JStr("def f(a):\n  return a") }

\* what the three external calls of one evaluation do
UIResponses ==
    { << TextJson(GoodConceptual), TextJson(GoodFeedback), TextJson(JList(<< >>)) >>,
      << TextProse, TextProse, TextProse >>,
      << TextJson(JList(<< >>)), TextProse, TextProse >>,
      << TextProse, LLMRaise, TextProse >> }

\* line 364 (mutation: only the problem is tested)
MissingInputProblemOnly(problem, code) == ~Truthy(problem)

\* line 364: if not problem or not code
MissingInput(problem, code) == ~Truthy(problem) \/ ~Truthy(code)

\* lines 363-372: the pair the handler returns, as its first component
\* (`output`) and the external calls made on the way (`calls`)
UIEvaluateResult(problem, code, responses) ==
    IF MissingInput(problem, code)
    THEN [op |-> "ui_evaluate_solution", status |-> "ok",
          problem |-> problem, code |-> code, calls |-> << >>,
          output |-> [error |-> "Problem and code required"]]
    ELSE IF code.t # "str" \/ problem.t # "obj"
    THEN \* code.strip() / problem.get(...) of the evaluator raise before any
         \* external call; the handler's except turns it into an error record
         [op |-> "ui_evaluate_solution", status |-> "ok",
          problem |-> problem, code |-> code, calls |-> << >>,
          output |-> [error |-> "AttributeError"]]
    ELSE LET r == evaluate_solution(
                      [problem |-> problem, code |-> code.s,
                       explanation |-> None, r1 |-> responses[1],
                       r2 |-> responses[2], r3 |-> responses[3]])
         IN  [op |-> "ui_evaluate_solution", status |-> "ok",
              problem |-> problem, code |-> code, calls |-> r.calls,
              output |-> IF r.status = "ok" THEN r ELSE [error |-> r.exc]]

\* the handler, given the pair it returns for the request
UIReturn(r) ==
    /\ result' = r
    /\ LET failed == /\ "error" \in DOMAIN result'.output
                     /\ result'.output.error = "ExternalCallError"
       IN  /\ failed => ext_failures < MaxExtFailures
           /\ ext_failures' = IF failed THEN ext_failures + 1 ELSE ext_failures
    /\ UNCHANGED << hint_history, student_progress, session_history,
                    sessions_returned, config, threads >>

ui_evaluate_solution(problem, code, responses) ==
    UIReturn(UIEvaluateResult(problem, code, responses))

\* the handler reads and writes no state: what it returns for the requests
\* of the UI is fixed once
UIEvaluations ==
    { UIEvaluateResult(p, c, r) : p \in UIProblems, c \in UICodes, r \in UIResponses }

(***************************************************************************)
(* get_progressive_hints statement by statement, for requests that the UI  *)
(* server runs on concurrent threads.  A thread can be preempted between   *)
(* any two statements, and it is while it waits for the external call.     *)
(***************************************************************************)
\* hint_level arguments of the concurrent requests
RaceLevels == { 0, 2 }

\* another thread that holds a current_level it read before this write
HoldsLevel(th, problem_id) ==
    /\ th.pc \in { "h_llm", "h_write" }
    /\ th.problem_id = problem_id

\* line 17: the call is entered
HintCall(t, problem, hint_level) ==
    /\ threads[t].pc = "idle"
    /\ threads' = [threads EXCEPT ![t] =
                      [pc |-> "h_check", op |-> "get_hint",
                       problem_id |-> ProblemId(problem),
                       hint_level |-> hint_level, stale |-> FALSE]]
    /\ UNCHANGED << hint_history, student_progress, session_history, result,
                    sessions_returned, ext_failures, config >>

\* line 20: if problem_id not in self.hint_history
HintCheck(t) ==
    /\ threads[t].pc = "h_check"
    /\ threads' = [threads EXCEPT ![t].pc =
                      IF threads[t].problem_id \notin DOMAIN hint_history
                      THEN "h_init" ELSE "h_read"]
    /\ UNCHANGED << hint_history, student_progress, session_history, result,
                    sessions_returned, ext_failures, config >>

\* line 21: self.hint_history[problem_id] = 0
HintInit(t) ==
    /\ threads[t].pc = "h_init"
    /\ hint_history' = DictSet(hint_history, threads[t].problem_id, 0)
    /\ threads' = [threads EXCEPT ![t].pc = "h_read"]
    /\ UNCHANGED << student_progress, session_history, result,
                    sessions_returned, ext_failures, config >>

\* line 23: current_level = max(self.hint_history[problem_id], hint_level)
HintRead(t) ==
    /\ threads[t].pc = "h_read"
    /\ threads' = [threads EXCEPT ![t] =
                      [current_level |->
                          CurrentLevel(hint_history, threads[t].problem_id,
                                       threads[t].hint_level)]
                      @@ [threads[t] EXCEPT !.pc = "h_llm"]]
    /\ UNCHANGED << hint_history, student_progress, session_history, result,
                    sessions_returned, ext_failures, config >>

\* lines 26-33: the external call of the level's prompt returns or raises
HintLLM(t, llm_ok) ==
    /\ threads[t].pc = "h_llm"
    /\ llm_ok \/ ext_failures < MaxExtFailures
    /\ IF llm_ok
       THEN /\ threads' = [threads EXCEPT ![t] =
                              [hint |-> HintClass(threads[t].current_level)]
                              @@ [threads[t] EXCEPT !.pc = "h_write"]]
            /\ UNCHANGED << result, ext_failures >>
       ELSE /\ threads' = [threads EXCEPT ![t].pc = "done"]
            /\ result' = [op |-> "get_hint", status |-> "raised",
                          problem_id |-> threads[t].problem_id,
                          exc |-> "ExternalCallError"]
            /\ ext_failures' = ext_failures + 1
    /\ UNCHANGED << hint_history, student_progress, session_history,
                    sessions_returned, config >>

\* line 36: self.hint_history[problem_id] = current_level + 1; `stale` marks
\* the threads whose current_level was read before this write
HintWrite(t) ==
    /\ threads[t].pc = "h_write"
    /\ hint_history' = HintHistoryUpdate(hint_history, threads[t].problem_id,
                                         threads[t].current_level)
    /\ threads' = [u \in Threads |->
                      IF u = t THEN [threads[t] EXCEPT !.pc = "h_return"]
                      ELSE IF HoldsLevel(threads[u], threads[t].problem_id)
                      THEN [threads[u] EXCEPT !.stale = TRUE]
                      ELSE threads[u]]
    /\ UNCHANGED << student_progress, session_history, result,
                    sessions_returned, ext_failures, config >>

\* lines 38-43: the result is returned
HintReturn(t) ==
    /\ threads[t].pc = "h_return"
    /\ result' = [op |-> "get_hint", status |-> "ok",
                  problem_id |-> threads[t].problem_id,
                  hint |-> threads[t].hint,
                  hint_level |-> threads[t].current_level,
                  max_level |-> MAX_HINT_LEVEL,
                  next_level_available |->
                      (threads[t].current_level < MAX_HINT_LEVEL)]
    /\ threads' = [threads EXCEPT ![t] =
                      [ret |-> result'] @@ [threads[t] EXCEPT !.pc = "done"]]
    /\ UNCHANGED << hint_history, student_progress, session_history,
                    sessions_returned, ext_failures, config >>

\* hint maps the sequential program reaches for problem p1
InitialHintMaps ==
    { EmptyDict } \cup { DictSet(EmptyDict, "p1", k) : k \in 0..(MaxStored - 1) }

(***************************************************************************)
(* start_learning_session / start_teaching_session statement by statement, *)
(* for requests on concurrent threads.                                     *)
(***************************************************************************)
\* lines 35-40 (mutation: setdefault, a record that exists is kept)
InitRecordIfAbsent(progress, student_id) ==
    IF student_id \in DOMAIN progress THEN progress
    ELSE DictSet(progress, student_id, NewProgress)

\* lines 35-40: self.student_progress[student_id] = {...}
InitRecord(progress, student_id) == DictSet(progress, student_id, NewProgress)

\* orchestrator.py line 30 and teacherAgent.py lines 21-31: the call is
\* entered with a valid difficulty
SessCall(t, student_id, topics, difficulty) ==
    /\ threads[t].pc = "idle"
    /\ difficulty \in Difficulty
    /\ threads' = [threads EXCEPT ![t] =
                      [pc |-> "s_check", op |-> "start_session",
                       student_id |-> student_id, topics |-> topics,
                       difficulty |-> difficulty, replaced |-> -1]]
    /\ UNCHANGED << hint_history, student_progress, session_history, result,
                    sessions_returned, ext_failures, config >>

\* line 34: if student_id not in self.student_progress
SessCheck(t) ==
    /\ threads[t].pc = "s_check"
    /\ threads' = [threads EXCEPT ![t].pc =
                      IF threads[t].student_id \notin DOMAIN student_progress
                      THEN "s_init" ELSE "s_load"]
    /\ UNCHANGED << hint_history, student_progress, session_history, result,
                    sessions_returned, ext_failures, config >>

\* lines 35-40; `replaced` keeps the session count of the record that the
\* assignment replaces, -1 when there is none
SessInit(t) ==
    /\ threads[t].pc = "s_init"
    /\ student_progress' = InitRecord(student_progress, threads[t].student_id)
    /\ threads' = [threads EXCEPT
                      ![t].pc = "s_load",
                      ![t].replaced =
                          IF threads[t].student_id \in DOMAIN student_progress
                          THEN student_progress[threads[t].student_id].total_sessions
                          ELSE -1]
    /\ UNCHANGED << hint_history, session_history, result,
                    sessions_returned, ext_failures, config >>

\* line 42, the read of `... ["total_sessions"] += 1`
SessLoad(t) ==
    /\ threads[t].pc = "s_load"
    /\ threads' = [threads EXCEPT ![t] =
                      [loaded |->
                          student_progress[threads[t].student_id].total_sessions]
                      @@ [threads[t] EXCEPT !.pc = "s_store"]]
    /\ UNCHANGED << hint_history, student_progress, session_history, result,
                    sessions_returned, ext_failures, config >>

\* line 42, the write of `... ["total_sessions"] += 1`
SessStore(t) ==
    /\ threads[t].pc = "s_store"
    /\ student_progress' =
          [student_progress EXCEPT
              ![threads[t].student_id].total_sessions = threads[t].loaded + 1]
    /\ threads' = [threads EXCEPT ![t].pc = "s_ext"]
    /\ UNCHANGED << hint_history, session_history, result,
                    sessions_returned, ext_failures, config >>

\* lines 45-49: the knowledge-base queries and the welcome-message call
SessExternal(t, ext_ok) ==
    /\ threads[t].pc = "s_ext"
    /\ ext_ok \/ ext_failures < MaxExtFailures
    /\ IF ext_ok
       THEN /\ threads' = [threads EXCEPT ![t].pc = "s_append"]
            /\ UNCHANGED << result, ext_failures >>
       ELSE /\ threads' = [threads EXCEPT ![t].pc = "done"]
            /\ result' = [op |-> "start_session", status |-> "raised",
                          student_id |-> threads[t].student_id,
                          exc |-> "ExternalCallError"]
            /\ ext_failures' = ext_failures + 1
    /\ UNCHANGED << hint_history, student_progress, session_history,
                    sessions_returned, config >>

\* orchestrator.py lines 35-43: the history entry is appended, the session
\* is returned
SessAppend(t) ==
    /\ threads[t].pc = "s_append"
    /\ session_history' = Append(session_history,
                                 [session_id |-> SessionId,
                                  topics |-> threads[t].topics,
                                  difficulty |-> threads[t].difficulty])
    /\ sessions_returned' =
          [sessions_returned EXCEPT ![threads[t].student_id] = @ + 1]
    /\ result' = [op |-> "start_session", status |-> "ok",
                  student_id |-> threads[t].student_id,
                  session_id |-> SessionId]
    /\ threads' = [threads EXCEPT ![t] =
                      [ret |-> result'] @@ [threads[t] EXCEPT !.pc = "done"]]
    /\ UNCHANGED << hint_history, student_progress, ext_failures, config >>

(***************************************************************************)
(* EvaluatorAgent.evaluate_solution statement by statement: `outstanding`  *)
(* holds the external calls that were issued and have not yet returned,    *)
(* `issued` every call issued so far with what its prompt was built from.  *)
(***************************************************************************)
\* the thread that serves the evaluation
EvalThread == "t1"

\* a local of the handler, None while it is not assigned
Local(th, name) == IF name \in DOMAIN th THEN th[name] ELSE None

\* line 117 (mutation: the prompt is built without the assessment)
FeedbackInputNone(test_results) == None

\* line 117: the feedback prompt embeds json.dumps(test_results)
FeedbackInput(test_results) == test_results

\* self.llm.invoke(...) is entered
IssueCall(th, call, input) ==
    [th EXCEPT !.outstanding = Append(@, call),
               !.issued = Append(@, [call |-> call, input |-> input])]

\* the names of the calls issued so far
CallNames(th) == [i \in 1..Len(th.issued) |-> th.issued[i].call]

\* the handler ends with an exception
EvalRaise(t, th, exc) ==
    /\ threads' = [threads EXCEPT ![t] = [th EXCEPT !.pc = "done"]]
    /\ result' = EvalRecord(th.args, "raised", exc, CallNames(th),
                            Local(th, "syntax_check"), Local(th, "test_results"),
                            Local(th, "feedback"), Local(th, "score"), None)
    /\ ext_failures' = IF exc = "ExternalCallError"
                       THEN ext_failures + 1 ELSE ext_failures

\* lines 15-16: the call is entered
EvalEnter(t, args) ==
    /\ threads[t].pc = "idle"
    /\ threads' = [threads EXCEPT ![t] =
                      [pc |-> "e_syntax", op |-> "evaluate_solution",
                       args |-> args, outstanding |-> << >>, issued |-> << >>]]
    /\ UNCHANGED << hint_history, student_progress, session_history, result,
                    sessions_returned, ext_failures, config >>

\* line 20
EvalSyntax(t) ==
    /\ threads[t].pc = "e_syntax"
    /\ threads' = [threads EXCEPT ![t] =
                      [syntax_check |-> check_syntax(threads[t].args.code)]
                      @@ [threads[t] EXCEPT !.pc = "e_issue1"]]
    /\ UNCHANGED << hint_history, student_progress, session_history, result,
                    sessions_returned, ext_failures, config >>

\* lines 69-91: the conceptual-assessment call is issued
EvalIssueConceptual(t) ==
    /\ threads[t].pc = "e_issue1"
    /\ threads' = [threads EXCEPT ![t] =
                      [IssueCall(threads[t], "conceptual", None)
                          EXCEPT !.pc = "e_wait1"]]
    /\ UNCHANGED << hint_history, student_progress, session_history, result,
                    sessions_returned, ext_failures, config >>

\* lines 91-102: the call returns or raises; the text is parsed
EvalConceptualDone(t) ==
    /\ threads[t].pc = "e_wait1"
    /\ LET th == [threads[t] EXCEPT !.outstanding = << >>]
           r == run_conceptual_tests(th.args.r1)
       IN  IF r.ok
           THEN /\ threads' = [threads EXCEPT ![t] =
                                  [test_results |-> r.val]
                                  @@ [th EXCEPT !.pc = "e_issue2"]]
                /\ UNCHANGED << result, ext_failures >>
           ELSE EvalRaise(t, th, r.exc)
    /\ UNCHANGED << hint_history, student_progress, session_history,
                    sessions_returned, config >>

\* lines 107-130: the feedback call is issued
EvalIssueFeedback(t) ==
    /\ threads[t].pc = "e_issue2"
    /\ threads' = [threads EXCEPT ![t] =
                      [IssueCall(threads[t], "feedback",
                                 FeedbackInput(threads[t].test_results))
                          EXCEPT !.pc = "e_wait2"]]
    /\ UNCHANGED << hint_history, student_progress, session_history, result,
                    sessions_returned, ext_failures, config >>

\* lines 130-140
EvalFeedbackDone(t) ==
    /\ threads[t].pc = "e_wait2"
    /\ LET th == [threads[t] EXCEPT !.outstanding = << >>]
           r == generate_feedback(th.args.r2)
       IN  IF r.ok
           THEN /\ threads' = [threads EXCEPT ![t] =
                                  [feedback |-> r.val]
                                  @@ [th EXCEPT !.pc = "e_score"]]
                /\ UNCHANGED << result, ext_failures >>
           ELSE EvalRaise(t, th, r.exc)
    /\ UNCHANGED << hint_history, student_progress, session_history,
                    sessions_returned, config >>

\* line 27
EvalScore(t) ==
    /\ threads[t].pc = "e_score"
    /\ LET th == threads[t]
           r == calculate_score(th.syntax_check, th.test_results, th.feedback)
       IN  IF r.ok
           THEN /\ threads' = [threads EXCEPT ![t] =
                                  [score |-> r.val]
                                  @@ [th EXCEPT !.pc = "e_issue3"]]
                /\ UNCHANGED << result, ext_failures >>
           ELSE EvalRaise(t, th, r.exc)
    /\ UNCHANGED << hint_history, student_progress, session_history,
                    sessions_returned, config >>

\* lines 173-200: the suggestions from the feedback are built (this may
\* raise), then the improvement call is issued
EvalIssueImprovements(t) ==
    /\ threads[t].pc = "e_issue3"
    /\ LET th == threads[t]
           pre == suggest_improvements(th.feedback, TextProse)
       IN  IF pre.called
           THEN /\ threads' = [threads EXCEPT ![t] =
                                  [IssueCall(th, "improvements", None)
                                      EXCEPT !.pc = "e_wait3"]]
                /\ UNCHANGED << result, ext_failures >>
           ELSE EvalRaise(t, th, pre.exc)
    /\ UNCHANGED << hint_history, student_progress, session_history,
                    sessions_returned, config >>

\* lines 200-210
EvalImprovementsDone(t) ==
    /\ threads[t].pc = "e_wait3"
    /\ LET th == [threads[t] EXCEPT !.outstanding = << >>]
           r == suggest_improvements(th.feedback, th.args.r3)
       IN  IF r.ok
           THEN /\ threads' = [threads EXCEPT ![t] =
                                  [improvements |-> r.val]
                                  @@ [th EXCEPT !.pc = "e_return"]]
                /\ UNCHANGED << result, ext_failures >>
           ELSE EvalRaise(t, th, r.exc)
    /\ UNCHANGED << hint_history, student_progress, session_history,
                    sessions_returned, config >>

\* lines 32-40: the result is built and returned
EvalReturn(t) ==
    /\ threads[t].pc = "e_return"
    /\ LET th == threads[t]
       IN  result' = EvalRecord(th.args, "ok", None, CallNames(th),
                                th.syntax_check, th.test_results, th.feedback,
                                th.score, th.improvements)
    /\ threads' = [threads EXCEPT ![t].pc = "done"]
    /\ UNCHANGED << hint_history, student_progress, session_history,
                    sessions_returned, ext_failures, config >>

\* the evaluations followed statement by statement
EvalStepArgs ==
    { EvalCall("def f(a):\n  return a", r1, r2, r3) :
        r1 \in ConceptualResponses, r2 \in FeedbackResponses,
        r3 \in SuggestionResponses }

(***************************************************************************)
(* HintAgent.analyze_stuck_point                                           *)
(***************************************************************************)
\* ' '.join(actions)
RECURSIVE Join(_)
Join(actions) ==
    IF Len(actions) = 0 THEN ""
    ELSE IF Len(actions) = 1 THEN actions[1]
    ELSE actions[1] \o " " \o Join(Tail(actions))

\* any(word in action_text for word in words)
AnyWord(words, action_text) == \E word \in words : Contains(action_text, word)

\* the if/elif chain of lines 176-187
StuckPointOf(action_text) ==
    IF AnyWord({"input", "read", "parse"}, action_text)
    THEN "Understanding input format"
    ELSE IF AnyWord({"output", "print", "return"}, action_text)
    THEN "Understanding output format"
    ELSE IF AnyWord({"loop", "iterate", "for", "while"}, action_text)
    THEN "Implementing iteration logic"
    ELSE IF AnyWord({"condition", "if", "else"}, action_text)
    THEN "Handling edge cases"
    ELSE IF AnyWord({"data structure", "list", "dict", "set"}, action_text)
    THEN "Choosing appropriate data structure"
    ELSE "Understanding problem requirements"

\* lines 172-187 (mutation: the action text is matched as typed, without
\* .lower())
identify_stuck_point_cased(actions) == StuckPointOf(Join(actions))

\* lines 172-187
identify_stuck_point(actions) == StuckPointOf(Lower(Join(actions)))

\* the student actions a caller may pass
ActionPool ==
    { "tried using a for loop", "got confused", "INPUT unclear",
      "printed the result", "checked parsing", "used a dict", "data",
      "structure", "asked why", "wrote an else branch", "While debugging" }

ActionLists == UNION { [1..n -> ActionPool] : n \in 0..MaxActions }

\* lines 141-162; llm_ok says whether self.llm.invoke of the analysis prompt
\* returns or raises (the classification of line 161 comes after the call)
analyze_stuck_point(problem, student_actions, llm_ok) ==
    /\ llm_ok \/ ext_failures < MaxExtFailures
    /\ IF llm_ok
       THEN /\ result' = [op |-> "analyze_stuck_point", status |-> "ok",
                          student_actions |-> student_actions,
                          analysis |-> "analysis",
                          likely_stuck_point |->
                              identify_stuck_point(student_actions)]
            /\ UNCHANGED ext_failures
       ELSE /\ result' = [op |-> "analyze_stuck_point", status |-> "raised",
                          student_actions |-> student_actions,
                          exc |-> "ExternalCallError"]
            /\ ext_failures' = ext_failures + 1
    /\ UNCHANGED << hint_history, student_progress, session_history,
                    sessions_returned, config, threads >>

(***************************************************************************)
(* QuestionGeneratorAgent.generate_question                                *)
(***************************************************************************)
\* obj[k] = v on a dict: the key keeps its place, a new key goes last
ObjSet(obj, k, v) ==
    IF HasKey(obj, k)
    THEN JObj([i \in 1..Len(obj.kv) |->
                  IF obj.kv[i].k = k THEN KV(k, v) ELSE obj.kv[i]])
    ELSE JObj(Append(obj.kv, KV(k, v)))

\* f"{n:04d}"
Pad4(n) ==
    (IF n < 10 THEN "000" ELSE IF n < 100 THEN "00"
     ELSE IF n < 1000 THEN "0" ELSE "") \o ToString(n)

\* lines 102-117; uuid8 is str(uuid.uuid4())[:8]
create_fallback_problem(topic, difficulty, uuid8) ==
    JObj(<< KV("id", JStr("fallback_" \o uuid8)),
            KV("title", JStr(topic \o " Problem")),
            KV("topic", JStr(topic)),
            KV("difficulty", JStr(difficulty)),
            KV("input_format", JStr("Standard input format")),
            KV("output_format", JStr("Standard output format")),
            KV("constraints", JStr("1 <= n <= 10^5")),
            KV("hints", JList(<< JStr("Think about the core concept"),
                                 JStr("Consider edge cases") >>)) >>)

\* lines 86-100: how the call ends for a response; h is
\* hash(str(problem)) % 10000.  Only json.JSONDecodeError is handled: a
\* parsed value that takes no item assignment raises TypeError at line 92.
generate_question(topic, difficulty, response, h, uuid8) ==
    IF response.form = "raise" THEN Raise("ExternalCallError")
    ELSE LET parsed == json_loads(response)
         IN  IF ~parsed.ok
             THEN Ok(create_fallback_problem(topic, difficulty, uuid8))
             ELSE IF parsed.val.t # "obj" THEN Raise("TypeError")
             ELSE Ok(ObjSet(ObjSet(ObjSet(parsed.val, "topic", JStr(topic)),
                                   "difficulty", JStr(difficulty)),
                            "id", JStr("gen_" \o Pad4(h))))

\* the values of hash(str(problem)) % 10000 and of the uuid prefix that
\* a call may draw
HashValues == { 7, 1234 }
UuidPrefixes == { "1a2b3c4d" }

GoodProblem ==
    JObj(<< KV("title", JStr("Two Sum")),
            KV("description", JStr("Find two numbers")) >>)

\* what the text-generation call may do for a question prompt
QuestionResponses ==
    { LLMRaise, TextEmpty, TextProse, TextProseJson(GoodProblem),
      TextJson(GoodProblem), TextJson(JObj(<< >>)),
      TextJson(JObj(<< KV("id", JStr("own")), KV("topic", JStr("Heaps")) >>)),
      TextJson(JList(<< GoodProblem >>)), TextJson(JList(<< >>)),
      TextJson(JNum(3)), TextJson(JStr("Two Sum")), TextJson(JNull),
      TextJson(JBool(TRUE)) }

\* the question generator called with a topic, a Difficulty member and what
\* its text-generation call does
GenerateQuestion(topic, difficulty, response, h, uuid8) ==
    /\ result' = [op |-> "generate_question", topic |-> topic,
                  difficulty |-> difficulty, response |-> response]
                 @@ generate_question(topic, difficulty, response, h, uuid8)
    /\ ext_failures' = IF response.form = "raise"
                       THEN ext_failures + 1 ELSE ext_failures
    /\ UNCHANGED << hint_history, student_progress, session_history,
                    sessions_returned, config, threads >>

(***************************************************************************)
(* The system                                                              *)
(***************************************************************************)
Init ==
    /\ hint_history = EmptyDict
    /\ student_progress = EmptyDict
    /\ session_history = << >>
    /\ result = [op |-> "none", status |-> "ok"]
    /\ sessions_returned = [s \in Students |-> 0]
    /\ ext_failures = 0
    /\ config = DefaultConfig
    /\ threads = IdleThreads

Next ==
    \/ \E p \in Problems, l \in RequestLevels, ok \in BOOLEAN : get_hint(p, l, ok)
    \/ reset_hints
    \/ \E s \in Students, t \in TopicArgs, d \in DifficultyArgs, ok \in BOOLEAN :
          start_learning_session(s, t, d, ok)
    \/ \E s \in Students : get_student_progress(s)
    \/ \E r \in TutorEvaluations : ReturnEvaluation(r)

Spec == Init /\ [][Next]_vars

\* the hint tracker alone
NextHints ==
    \/ \E p \in Problems, l \in RequestLevels, ok \in BOOLEAN : get_hint(p, l, ok)
    \/ reset_hints

SpecHints == Init /\ [][NextHints]_vars

\* the hint tracker driven by callers that never pass a hint_level argument
\* (get_hint(problem) with the default hint_level=0)
NextDefaultLevel ==
    \/ \E p \in Problems, ok \in BOOLEAN : get_hint(p, 0, ok)
    \/ reset_hints

SpecDefaultLevel == Init /\ [][NextDefaultLevel]_vars

\* the session/progress tracker alone
NextSessions ==
    \/ \E s \in Students, t \in TopicArgs, d \in DifficultyArgs, ok \in BOOLEAN :
          start_learning_session(s, t, d, ok)
    \/ \E s \in Students : get_student_progress(s)

SpecSessions == Init /\ [][NextSessions]_vars

\* the UI's evaluate handler next to the hint tracker and the sessions
NextUI ==
    \/ \E ok \in BOOLEAN : get_hint([id |-> "p1", title |-> "Two Sum"], 0, ok)
    \/ \E t \in TopicArgs, ok \in BOOLEAN :
          start_learning_session("s1", t, "Medium", ok)
    \/ \E r \in UIEvaluations : UIReturn(r)

SpecUI == Init /\ [][NextUI]_vars

\* two threads that each serve one get_hint request
InitHintRace ==
    /\ hint_history \in InitialHintMaps
    /\ student_progress = EmptyDict
    /\ session_history = << >>
    /\ result = [op |-> "none", status |-> "ok"]
    /\ sessions_returned = [s \in Students |-> 0]
    /\ ext_failures = 0
    /\ config = DefaultConfig
    /\ threads = IdleThreads

NextHintRace ==
    \/ \E t \in Threads, p \in Problems, l \in RaceLevels : HintCall(t, p, l)
    \/ \E t \in Threads : HintCheck(t)
    \/ \E t \in Threads : HintInit(t)
    \/ \E t \in Threads : HintRead(t)
    \/ \E t \in Threads, ok \in BOOLEAN : HintLLM(t, ok)
    \/ \E t \in Threads : HintWrite(t)
    \/ \E t \in Threads : HintReturn(t)

SpecHintRace == InitHintRace /\ [][NextHintRace]_vars

\* two threads that each serve one start_session request
NextSessionRace ==
    \/ \E t \in Threads, s \in Students, tp \in TopicArgs :
          SessCall(t, s, tp, "Medium")
    \/ \E t \in Threads : SessCheck(t)
    \/ \E t \in Threads : SessInit(t)
    \/ \E t \in Threads : SessLoad(t)
    \/ \E t \in Threads : SessStore(t)
    \/ \E t \in Threads, ok \in BOOLEAN : SessExternal(t, ok)
    \/ \E t \in Threads : SessAppend(t)

SpecSessionRace == Init /\ [][NextSessionRace]_vars

\* one evaluation, statement by statement
NextEvalSteps ==
    \/ \E a \in EvalStepArgs : EvalEnter(EvalThread, a)
    \/ EvalSyntax(EvalThread)
    \/ EvalIssueConceptual(EvalThread)
    \/ EvalConceptualDone(EvalThread)
    \/ EvalIssueFeedback(EvalThread)
    \/ EvalFeedbackDone(EvalThread)
    \/ EvalScore(EvalThread)
    \/ EvalIssueImprovements(EvalThread)
    \/ EvalImprovementsDone(EvalThread)
    \/ EvalReturn(EvalThread)

SpecEvalSteps == Init /\ [][NextEvalSteps]_vars

\* the evaluator alone: a caller holds one evaluation request, drawn from
\* every combination of code and responses, and makes the call
InitEval ==
    /\ hint_history = EmptyDict
    /\ student_progress = EmptyDict
    /\ session_history = << >>
    /\ result \in { [op |-> "evaluate_request", args |-> a] : a \in EvalArgs }
    /\ sessions_returned = [s \in Students |-> 0]
    /\ ext_failures = 0
    /\ config = DefaultConfig
    /\ threads = IdleThreads

EvaluateRequested ==
    /\ result.op = "evaluate_request"
    /\ EvaluateSolution(result.args)

NextEval == EvaluateRequested

SpecEval == InitEval /\ [][NextEval]_vars

\* the static check over every code
InitEvalCodes ==
    /\ hint_history = EmptyDict
    /\ student_progress = EmptyDict
    /\ session_history = << >>
    /\ result \in { [op |-> "evaluate_request", args |-> a] : a \in CodeEvalArgs }
    /\ sessions_returned = [s \in Students |-> 0]
    /\ ext_failures = 0
    /\ config = DefaultConfig
    /\ threads = IdleThreads

SpecEvalCodes == InitEvalCodes /\ [][NextEval]_vars

\* the stuck-point analysis alone: a caller holds one list of student
\* actions, drawn from every list over the pool, and makes the call
InitStuck ==
    /\ hint_history = EmptyDict
    /\ student_progress = EmptyDict
    /\ session_history = << >>
    /\ result \in { [op |-> "stuck_request", student_actions |-> a] :
                       a \in ActionLists }
    /\ sessions_returned = [s \in Students |-> 0]
    /\ ext_failures = 0
    /\ config = DefaultConfig
    /\ threads = IdleThreads

AnalyzeRequested ==
    /\ result.op = "stuck_request"
    /\ \E p \in Problems, ok \in BOOLEAN :
          analyze_stuck_point(p, result.student_actions, ok)

NextStuck == AnalyzeRequested

SpecStuck == InitStuck /\ [][NextStuck]_vars

\* the question generator alone: a caller holds one request, drawn from
\* every topic, difficulty and response, and makes the call
InitQuestions ==
    /\ hint_history = EmptyDict
    /\ student_progress = EmptyDict
    /\ session_history = << >>
    /\ result \in { [op |-> "question_request", topic |-> t,
                     difficulty |-> d, response |-> r] :
                       t \in Topic, d \in Difficulty, r \in QuestionResponses }
    /\ sessions_returned = [s \in Students |-> 0]
    /\ ext_failures = 0
    /\ config = DefaultConfig
    /\ threads = IdleThreads

QuestionRequested ==
    /\ result.op = "question_request"
    /\ \E h \in HashValues, u \in UuidPrefixes :
          GenerateQuestion(result.topic, result.difficulty, result.response,
                           h, u)

NextQuestions == QuestionRequested

SpecQuestions == InitQuestions /\ [][NextQuestions]_vars

\* the evaluator under each value a deployment may give the pass mark of
\* config.py
PassThresholds == { 50, 70, 90 }

ConfigEvalArgs ==
    { EvalCall(c, r1, r2, TextJson(JList(<< >>))) :
        c \in Codes, r1 \in ConceptualResponses, r2 \in FeedbackResponses }

InitEvalConfig ==
    /\ hint_history = EmptyDict
    /\ student_progress = EmptyDict
    /\ session_history = << >>
    /\ result \in { [op |-> "evaluate_request", args |-> a] : a \in ConfigEvalArgs }
    /\ sessions_returned = [s \in Students |-> 0]
    /\ ext_failures = 0
    /\ config \in { [MIN_SCORE_PASS |-> t] : t \in PassThresholds }
    /\ threads = IdleThreads

SpecEvalConfig == InitEvalConfig /\ [][NextEval]_vars

(***************************************************************************)
(* Properties                                                              *)
(***************************************************************************)
HintReturned == result.op = "get_hint" /\ result.status = "ok"

\* C1: for callers that never pass a level, the hint_level of every
\* get_hint result is at most 3, and of two get_hint calls made one right
\* after the other for the same problem id the second returns a level at
\* least as large as the first.
C1_DefaultLevelsBounded ==
    /\ [](HintReturned => result.hint_level <= MAX_HINT_LEVEL)
    /\ [][(HintReturned /\ HintReturned'
           /\ result'.problem_id = result.problem_id)
            => result'.hint_level >= result.hint_level]_vars

\* C2: every stored hint level is in 0..3, and no step other than the
\* clear-all removes an entry of the hint map or lowers its level.
C2_StoredLevelInRange ==
    /\ [](\A p \in DOMAIN hint_history : hint_history[p] \in 0..MAX_HINT_LEVEL)
    /\ [][result'.op # "reset_hints"
            => \A p \in DOMAIN hint_history :
                  /\ p \in DOMAIN hint_history'
                  /\ hint_history'[p] >= hint_history[p]]_vars

\* the level a problem id is stored with, 0 when it has no entry
StoredLevel(problem_id) == DictGet(hint_history, problem_id, 0)

\* the content class the specification gives each level
ExpectedHintClass(level) ==
    CASE level = 0 -> "conceptual"
      [] level = 1 -> "approach"
      [] level = 2 -> "implementation"
      [] level >= 3 -> "near_solution"

\* C3: a get_hint call whose external call returns ends normally whatever
\* the level, and the hint it carries is of the class of the effective level
\* max(stored, requested): conceptual, approach, implementation for 0, 1, 2
\* and near-solution for every level of 3 or more.
C3_TerminalHintNotError ==
    [][\A p \in Problems, l \in RequestLevels :
          get_hint(p, l, TRUE)
            => /\ result'.status = "ok"
               /\ result'.hint =
                     ExpectedHintClass(Max(StoredLevel(ProblemId(p)), l))]_vars

\* C3 witness: a hint above level 3 was asked for and answered with the
\* near-solution hint.
C3_Witness ==
    /\ HintReturned
    /\ result.hint_level > MAX_HINT_LEVEL
    /\ result.hint = "near_solution"

EvalReturned == result.op = "evaluate_solution" /\ result.status = "ok"

\* C4: every result evaluate_solution returns has a score in 0..100 and a
\* correctness flag that is true exactly when the score is at least 70.
C4_ScoreRangeAndFlag ==
    EvalReturned
      => /\ result.score \in 0..100
         /\ result.correctness = (result.score >= 70)

\* C4 witness: results on both sides of the pass mark, here the mark itself:
\* a returned evaluation that scores exactly 70 and is flagged correct.
C4_Witness ==
    /\ EvalReturned
    /\ result.score = 70
    /\ result.correctness = TRUE
    /\ result.syntax_check.has_issues

\* the weighted sum of the specification, from the four things it names
WeightedSum(no_issues, approach_correct, edge_cases, positives) ==
      (IF no_issues THEN 20 ELSE 0)
    + (IF approach_correct THEN 40 ELSE 0)
    + (IF edge_cases >= 2 THEN 20 ELSE IF edge_cases = 1 THEN 10 ELSE 0)
    + (IF positives >= 2 THEN 20 ELSE IF positives = 1 THEN 10 ELSE 0)

\* C5: the score of a returned evaluation is the weighted sum of (static
\* check without issues, approach marked correct, number of edge cases
\* handled, number of feedback positives), kept within 0..100, and so 100
\* for (no issues, correct, 2, 2).
C5_ScoreIsWeightedSum ==
    EvalReturned
      => LET tr == result.test_results
             fb == result.feedback
             sum == WeightedSum(
                        ~result.syntax_check.has_issues,
                        Truthy(ObjGet(tr, "approach_correct", JBool(FALSE))),
                        PyLen(ObjGet(tr, "edge_cases_handled", JList(<< >>))),
                        PyLen(ObjGet(fb, "positives", JList(<< >>))))
         IN  result.score = Max(0, Min(100, sum))

\* C5 witness: no issues, approach correct, 2 edge cases, 2 positives: 100.
C5_Witness ==
    /\ EvalReturned
    /\ ~result.syntax_check.has_issues
    /\ ObjGet(result.test_results, "approach_correct", JBool(FALSE)) = JBool(TRUE)
    /\ PyLen(ObjGet(result.test_results, "edge_cases_handled", JList(<< >>))) = 2
    /\ PyLen(ObjGet(result.feedback, "positives", JList(<< >>))) = 2
    /\ result.score = 100

UnparseableForms == { "empty", "prose", "prose_json" }

\* C6: when the text answering the conceptual-assessment prompt is empty,
\* plain prose or JSON wrapped in prose, the step yields the default object
\* (approach_correct false, no edge cases, complexities "Unknown", the one
\* bug note) and the call does not end in that step.
C6_ConceptualFallback ==
    (result.op = "evaluate_solution"
       /\ result.args.r1.form \in UnparseableForms)
      => /\ result.test_results = ConceptualDefault
         /\ ObjGet(result.test_results, "approach_correct", JNull) = JBool(FALSE)
         /\ ObjGet(result.test_results, "edge_cases_handled", JNull) = JList(<< >>)
         /\ ObjGet(result.test_results, "time_complexity", JNull) = JStr("Unknown")
         /\ ObjGet(result.test_results, "space_complexity", JNull) = JStr("Unknown")
         /\ ObjGet(result.test_results, "potential_bugs", JNull)
               = JList(<< JStr("Could not parse evaluation") >>)

\* C6 witness: JSON wrapped in prose was answered and the evaluation
\* returned with the default assessment.
C6_Witness ==
    /\ EvalReturned
    /\ result.args.r1.form = "prose_json"
    /\ result.test_results = ConceptualDefault

\* C7: whenever none of the three external calls itself fails,
\* evaluate_solution returns a result, whatever the texts contain.
C7_NeverRaisesOnContent ==
    (result.op = "evaluate_solution"
       /\ result.args.r1.form # "raise"
       /\ result.args.r2.form # "raise"
       /\ result.args.r3.form # "raise")
      => result.status = "ok"

NotFound(r) ==
    /\ r.op = "get_progress"
    /\ r.status = "ok"
    /\ "error" \in DOMAIN r
    /\ r.error = "Student not found"
    /\ "total_sessions" \notin DOMAIN r
    /\ "recommendations" \notin DOMAIN r

\* C8: get_progress of a student without a record returns the "Student not
\* found" record, no exception and no report, and the progress map after
\* the call is the one before it.
C8_UnseenStudentNotFound ==
    [][\A s \in Students :
          (get_student_progress(s) /\ s \notin DOMAIN student_progress)
            => /\ NotFound(result')
               /\ result'.student_id = s
               /\ student_progress' = student_progress
               /\ s \notin DOMAIN student_progress']_vars

\* C8 witness: the not-found record was returned for a student who still
\* has no record, while another student has one.
C8_Witness ==
    /\ NotFound(result)
    /\ result.student_id \notin DOMAIN student_progress
    /\ DOMAIN student_progress # {}

\* C9: a start_session call creates a record only for an unseen student,
\* with the initial contents, raises the student's count by exactly one and
\* leaves the other records alone; and the count of every student is the
\* number of start_session calls that completed for that student.
C9_CountIsCompletedSessions ==
    /\ [](\A s \in DOMAIN student_progress :
             student_progress[s].total_sessions = sessions_returned[s])
    /\ [][\A s \in Students :
             (result'.op = "start_session" /\ result'.status = "ok"
              /\ result'.student_id = s)
               => /\ student_progress'[s].total_sessions =
                        (IF s \in DOMAIN student_progress
                         THEN student_progress[s].total_sessions ELSE 0) + 1
                  /\ student_progress'[s].topics_mastery =
                        (IF s \in DOMAIN student_progress
                         THEN student_progress[s].topics_mastery
                         ELSE [t \in Topic |-> 0])
                  /\ \A o \in Students \ {s} :
                        /\ o \in DOMAIN student_progress'
                              <=> o \in DOMAIN student_progress
                        /\ o \in DOMAIN student_progress
                              => student_progress'[o] = student_progress[o]]_vars

HasRecommendation(recs, kind, names) ==
    \E i \in 1..Len(recs) : recs[i] = [kind |-> kind, names |-> names]

HasKind(recs, kind) == \E i \in 1..Len(recs) : recs[i].kind = kind

\* C10: the report of a known student has at most three recommendations;
\* the baseline item is there exactly when the student has fewer than 3
\* sessions, the focus item naming the first three weak topics whenever the
\* reported weak set is not empty, the leverage item naming the first
\* strong topic whenever the reported strong set is not empty.
C10_RecommendationRules ==
    (result.op = "get_progress" /\ "recommendations" \in DOMAIN result)
      => LET recs == result.recommendations
         IN  /\ Len(recs) <= 3
             /\ HasKind(recs, "baseline") <=> result.total_sessions < 3
             /\ result.weak_areas # << >>
                   => HasRecommendation(recs, "focus", Take(result.weak_areas, 3))
             /\ result.strong_areas # << >>
                   => HasRecommendation(recs, "leverage",
                                        << result.strong_areas[1] >>)

\* C11: an evaluate request of the UI whose problem is missing or empty, or
\* whose code is missing or empty, returns the record {"error": "Problem and
\* code required"} (the handler does not raise), makes no external call and
\* leaves the hint map, the progress map, the session history and the
\* settings as they were.
C11_MissingInputIsErrorResult ==
    [][(result'.op = "ui_evaluate_solution"
        /\ (~Truthy(result'.problem) \/ ~Truthy(result'.code)))
         => /\ result'.status = "ok"
            /\ result'.output = [error |-> "Problem and code required"]
            /\ result'.calls = << >>
            /\ UNCHANGED << hint_history, student_progress, session_history,
                            sessions_returned, ext_failures, config >>]_vars

\* C11 witness: with hints given and a session started, a request with a
\* problem but empty code was answered with the error record.
C11_Witness ==
    /\ result.op = "ui_evaluate_solution"
    /\ Truthy(result.problem)
    /\ result.code = JStr("")
    /\ result.output = [error |-> "Problem and code required"]
    /\ hint_history # EmptyDict
    /\ session_history # << >>

\* C12: the correctness flag of a returned evaluation is true exactly when
\* the score is at least the pass mark the settings give (MIN_SCORE_PASS),
\* whatever value the settings give it.
C12_CorrectnessFollowsConfig ==
    EvalReturned => result.correctness = (result.score >= config.MIN_SCORE_PASS)

\* the sum of the total session counts of all students with a record
TotalSessions ==
    SumSeq([i \in 1..Cardinality(DOMAIN student_progress) |->
              LET order == CHOOSE f \in [1..Cardinality(DOMAIN student_progress)
                                           -> DOMAIN student_progress] :
                              \A a, b \in DOMAIN f : a # b => f[a] # f[b]
              IN  student_progress[order[i]].total_sessions])

\* C13: in every reachable state the length of the session history is the
\* sum of the total session counts of all students (a start_session call
\* raises a count by one and appends one entry, also when its external call
\* fails and the caller retries), and no step removes or changes an entry of
\* the history.
C13_HistoryMatchesCounts ==
    /\ [](Len(session_history) = TotalSessions)
    /\ [][/\ Len(session_history') >= Len(session_history)
          /\ SubSeq(session_history', 1, Len(session_history))
                = session_history]_vars

\* C14: in every reachable state every topic of every student with a
\* record has mastery 0, and every progress report of a known student says
\* average mastery 0, every topic weak and no topic strong.
C14_MasteryStaysZero ==
    /\ \A s \in DOMAIN student_progress :
          /\ DOMAIN student_progress[s].topics_mastery = Topic
          /\ \A t \in Topic : student_progress[s].topics_mastery[t] = 0
    /\ (result.op = "get_progress" /\ "total_sessions" \in DOMAIN result)
          => /\ result.average_mastery = 0
             /\ result.weak_areas = TopicList
             /\ result.strong_areas = << >>

\* C14 witness: a report of a student, made after hints were given and
\* while another student has more than one session, shows all topics weak.
C14_Witness ==
    /\ result.op = "get_progress"
    /\ "total_sessions" \in DOMAIN result
    /\ result.weak_areas = TopicList
    /\ result.average_mastery = 0
    /\ hint_history # EmptyDict
    /\ \E s \in DOMAIN student_progress :
          s # result.student_id /\ student_progress[s].total_sessions > 1

\* C15: a get_hint call that returns reports the level L = max(stored level,
\* requested level), the stored level being 0 for a problem id without an
\* entry, and leaves exactly L + 1 stored for that id; a requested level
\* below the stored one, a negative one included, gives L = stored level.
C15_LevelIsMaxThenStoredPlusOne ==
    [][\A p \in Problems, l \in RequestLevels :
          get_hint(p, l, TRUE)
            => LET stored == IF ProblemId(p) \in DOMAIN hint_history
                             THEN hint_history[ProblemId(p)] ELSE 0
                   L == IF stored >= l THEN stored ELSE l
               IN  /\ result'.hint_level = L
                   /\ hint_history'[ProblemId(p)] = L + 1
                   /\ l < stored => result'.hint_level = stored]_vars

\* C15 witness: an id-less problem was served at level 2 and is now stored
\* with level 3, while problem p1 is stored with another level.
C15_Witness ==
    /\ HintReturned
    /\ result.problem_id = "unknown"
    /\ result.hint_level = 2
    /\ hint_history["unknown"] = 3
    /\ "p1" \in DOMAIN hint_history
    /\ hint_history["p1"] = 1

\* C16: the clear-all empties the hint map, all problem ids at once; a
\* get_hint without a level for a problem id that has no entry (as every id
\* after a clear-all) or a zero entry returns level 0; and no step other
\* than the clear-all removes an entry or lowers its level.
C16_OnlyClearAllResets ==
    /\ [][result'.op = "reset_hints" => DOMAIN hint_history' = {}]_vars
    /\ [][\A p \in Problems :
             (get_hint(p, 0, TRUE)
              /\ (ProblemId(p) \in DOMAIN hint_history
                     => hint_history[ProblemId(p)] = 0))
               => result'.hint_level = 0 /\ result'.hint = "conceptual"]_vars
    /\ [][result'.op # "reset_hints"
            => /\ DOMAIN hint_history \subseteq DOMAIN hint_history'
               /\ \A id \in DOMAIN hint_history :
                     hint_history'[id] >= hint_history[id]]_vars

\* C16 witness: the clear-all has just emptied the map, after a hint request
\* had been made (one whose external call failed).
C16_Witness ==
    /\ result.op = "reset_hints"
    /\ hint_history = EmptyDict
    /\ ext_failures > 0

\* a thread whose get_hint request has returned a hint
HintDone(t) == threads[t].pc = "done" /\ "ret" \in DOMAIN threads[t]

\* C17 as stated, for any two requests for the same problem id: when both
\* read the stored level before either writes it back, both return the same
\* hint level and the level stored after both is that level plus one.
C17_AnyTwoRequestsLoseUpdate ==
    \A a, b \in Threads :
       (/\ a # b
        /\ HintDone(a) /\ HintDone(b)
        /\ threads[a].problem_id = threads[b].problem_id
        /\ threads[b].stale)
         => /\ threads[a].ret.hint_level = threads[b].ret.hint_level
            /\ hint_history[threads[a].problem_id]
                  = threads[a].ret.hint_level + 1

\* C17 (amended): when two get_hint requests for the same problem id with the same
\* requested level run on two threads and both read the stored level before
\* either writes it back, both return the same hint level L and the level
\* stored after both is L + 1: one of the two advances is lost.
C17_LostHintUpdate ==
    \A a, b \in Threads :
       (/\ a # b
        /\ HintDone(a) /\ HintDone(b)
        /\ threads[a].problem_id = threads[b].problem_id
        /\ threads[a].hint_level = threads[b].hint_level
        /\ threads[b].stale)
         => /\ threads[a].ret.hint_level = threads[b].ret.hint_level
            /\ hint_history[threads[a].problem_id]
                  = threads[a].ret.hint_level + 1

\* C17 witness: both requests for p1, made without a level at stored level
\* 1, returned level 1 and the stored level is 2.
C17_Witness ==
    /\ HintDone("t1") /\ HintDone("t2")
    /\ threads["t1"].problem_id = "p1" /\ threads["t2"].problem_id = "p1"
    /\ threads["t1"].hint_level = 0 /\ threads["t2"].hint_level = 0
    /\ threads["t2"].stale
    /\ threads["t1"].ret.hint_level = 1 /\ threads["t2"].ret.hint_level = 1
    /\ hint_history["p1"] = 2

\* a thread whose start_session request has returned a session
SessionStarted(t) ==
    /\ threads[t].pc = "done"
    /\ threads[t].op = "start_session"
    /\ "ret" \in DOMAIN threads[t]

\* C18: when two start_session requests for the same unseen student run on
\* two threads and the initialisation of one replaces the record in which
\* the other has already counted its session, then after both sessions have
\* started the student's total session count is 1, with two sessions
\* returned and two history entries.
C18_LostSessionCount ==
    \A a, b \in Threads :
       (/\ a # b
        /\ SessionStarted(a) /\ SessionStarted(b)
        /\ threads[a].student_id = threads[b].student_id
        /\ threads[b].replaced = 1)
         => /\ student_progress[threads[a].student_id].total_sessions = 1
            /\ sessions_returned[threads[a].student_id] = 2
            /\ Len(session_history) = 2

\* C18 witness: two sessions were started for s1, the second initialisation
\* replaced a record counting one session, and the count is 1.
C18_Witness ==
    /\ SessionStarted("t1") /\ SessionStarted("t2")
    /\ threads["t1"].student_id = "s1" /\ threads["t2"].student_id = "s1"
    /\ threads["t2"].replaced = 1
    /\ sessions_returned["s1"] = 2
    /\ student_progress["s1"].total_sessions = 1

\* s is an initial part of q
IsPrefix(s, q) == Len(s) <= Len(q) /\ s = SubSeq(q, 1, Len(s))

EvalCallOrder == << "conceptual", "feedback", "improvements" >>

\* the thread of the evaluation, once it has entered the call
Evaluating == threads[EvalThread].pc # "idle"

\* C19: during evaluate_solution at most one external call is outstanding,
\* and it is the one issued last; the calls are issued in the order
\* conceptual assessment, feedback, improvement suggestions; the feedback
\* prompt is built from the parsed assessment; the score is computed from
\* the static check and the results of the first two calls, when exactly
\* these two calls have been issued, and never changes afterwards; and the
\* operation returns with all three calls issued and none outstanding.
C19_CallsSequentialInOrder ==
    /\ [](Evaluating =>
            LET th == threads[EvalThread]
                names == CallNames(th)
            IN  /\ Len(th.outstanding) <= 1
                /\ th.outstanding # << >>
                      => th.outstanding = << names[Len(names)] >>
                /\ IsPrefix(names, EvalCallOrder)
                /\ Len(th.issued) >= 2
                      => th.issued[2].input = th.test_results
                /\ th.pc = "e_issue3"
                      => /\ names = << "conceptual", "feedback" >>
                         /\ th.outstanding = << >>
                         /\ th.score =
                               calculate_score(th.syntax_check, th.test_results,
                                               th.feedback).val
                /\ (th.pc = "done" /\ result.status = "ok")
                      => /\ names = EvalCallOrder
                         /\ th.outstanding = << >>
                         /\ result.calls = EvalCallOrder
                         /\ result.score = th.score)
    /\ [][("score" \in DOMAIN threads[EvalThread] /\ Evaluating')
            => threads'[EvalThread].score = threads[EvalThread].score]_vars

\* C19 witness: the improvement call is outstanding, alone, after the score
\* was computed from an assessment and a feedback that were both parsed.
C19_Witness ==
    /\ threads[EvalThread].pc = "e_wait3"
    /\ threads[EvalThread].outstanding = << "improvements" >>
    /\ threads[EvalThread].score = 100
    /\ threads[EvalThread].issued[2].input = GoodConceptual

\* the number of characters from the first to the last non-blank one
StrippedLength(code) ==
    LET solid == { i \in 1..Len(code) : ~IsSpace(CharAt(code, i)) }
    IN  IF solid = {} THEN 0
        ELSE (CHOOSE i \in solid : \A j \in solid : j <= i)
             - (CHOOSE i \in solid : \A j \in solid : j >= i) + 1

\* the text occurs in the code, starting at some position
Occurs(code, text) ==
    \E i \in 1..Len(code) :
       /\ i + Len(text) - 1 <= Len(code)
       /\ \A k \in 1..Len(text) : CharAt(code, i + k - 1) = CharAt(text, k)

Flagged(syntax_check, issue) ==
    \E i \in 1..Len(syntax_check.issues) : syntax_check.issues[i] = issue

\* C20: the static check of every evaluation flags "Code appears incomplete"
\* exactly when the code without its leading and trailing blanks has fewer
\* than 10 characters, "No function or class definition found" exactly when
\* neither "def " nor "class " occurs in it, and the imports note exactly
\* when "import " occurs in it; has_issues is true exactly when at least one
\* issue is listed; and for the code "x=1" the issues are exactly
\* (incomplete, no definition), with has_issues true.
C20_StaticCheckFlags ==
    result.op = "evaluate_solution"
      => LET code == result.args.code
             sc == result.syntax_check
         IN  /\ Flagged(sc, "Code appears incomplete")
                   <=> StrippedLength(code) < 10
             /\ Flagged(sc, "No function or class definition found")
                   <=> ~(Occurs(code, "def ") \/ Occurs(code, "class "))
             /\ Flagged(sc, "Note: Imports detected - ensure they're allowed")
                   <=> Occurs(code, "import ")
             /\ sc.has_issues <=> sc.issues # << >>
             /\ code = "x=1"
                   => /\ sc.issues = << "Code appears incomplete",
                                         "No function or class definition found" >>
                      /\ sc.has_issues = TRUE

\* C20 witness: the code "x=1" was checked: two issues, has_issues true.
C20_Witness ==
    /\ EvalReturned
    /\ result.args.code = "x=1"
    /\ Len(result.syntax_check.issues) = 2
    /\ result.syntax_check.has_issues

\* position i of the code lies inside a string literal: an odd number of
\* quote characters precedes it
InLiteral(code, i) ==
    Cardinality({ j \in 1..(i - 1) : CharAt(code, j) \in { "'", "\"" } }) % 2 = 1

\* the code has a break statement: the word occurs outside string literals
HasBreakStatement(code) ==
    \E i \in 1..Len(code) :
       /\ i + 4 <= Len(code)
       /\ SubSeq(code, i, i + 4) = "break"
       /\ ~InLiteral(code, i)

\* C21 as stated: code that contains "while True:" and has no break
\* statement gets the infinite-loop warning, also when the word break
\* stands inside a string literal of the code.
C21_LoopFlaggedWithoutBreakStatement ==
    (result.op = "evaluate_solution"
       /\ Occurs(result.args.code, "while True:")
       /\ ~HasBreakStatement(result.args.code))
      => Flagged(result.syntax_check, "Potential infinite loop detected")

\* C21 (amended): the infinite-loop warning is given exactly when the code
\* contains "while True:" and the text "break" occurs nowhere in it; a
\* break inside a string literal therefore suppresses the warning.
C21_LoopFlaggedWithoutBreakText ==
    result.op = "evaluate_solution"
      => (Flagged(result.syntax_check, "Potential infinite loop detected")
            <=> (Occurs(result.args.code, "while True:")
                 /\ ~Occurs(result.args.code, "break")))

\* C21 witness: code with "while True:" whose only break is inside a string
\* literal was evaluated and carries no infinite-loop warning.
C21_Witness ==
    /\ EvalReturned
    /\ Occurs(result.args.code, "while True:")
    /\ Occurs(result.args.code, "break")
    /\ ~HasBreakStatement(result.args.code)
    /\ ~Flagged(result.syntax_check, "Potential infinite loop detected")

(***************************************************************************)
(* Stuck-point analysis                                                    *)
(***************************************************************************)
StuckReturned == result.op = "analyze_stuck_point" /\ result.status = "ok"

\* the categories in priority order, each with its keywords
StuckCategories ==
    << [name |-> "Understanding input format",
        keywords |-> {"input", "read", "parse"}],
       [name |-> "Understanding output format",
        keywords |-> {"output", "print", "return"}],
       [name |-> "Implementing iteration logic",
        keywords |-> {"loop", "iterate", "for", "while"}],
       [name |-> "Handling edge cases",
        keywords |-> {"condition", "if", "else"}],
       [name |-> "Choosing appropriate data structure",
        keywords |-> {"data structure", "list", "dict", "set"}] >>

GenericCategory == "Understanding problem requirements"

\* the keyword occurs in the actions written one after the other with a
\* blank between them, letter case ignored
KeywordIn(actions, keyword) ==
    LET text == Join(actions)
    IN  \E i \in 1..Len(text) :
           /\ i + Len(keyword) - 1 <= Len(text)
           /\ \A k \in 1..Len(keyword) :
                 LowerChar(CharAt(text, i + k - 1)) = CharAt(keyword, k)

\* the categories some keyword of which occurs in the actions
Matching(actions) ==
    { c \in 1..Len(StuckCategories) :
        \E keyword \in StuckCategories[c].keywords : KeywordIn(actions, keyword) }

\* C22: a returned stuck-point analysis names exactly one of the six
\* categories: the first category, in the order input, output, iteration,
\* conditionals, data structure, one keyword of which occurs in the
\* lower-cased concatenated actions, whatever later categories also match,
\* and the generic category only when no keyword occurs; the actions
\* "tried using a for loop", "got confused" are classified as iteration.
C22_StuckPointByPriority ==
    StuckReturned =>
       LET m == Matching(result.student_actions)
       IN  /\ result.likely_stuck_point \in
                 { StuckCategories[c].name : c \in 1..Len(StuckCategories) }
                    \cup { GenericCategory }
           /\ m = {} <=> result.likely_stuck_point = GenericCategory
           /\ m # {} =>
                 result.likely_stuck_point =
                    StuckCategories[CHOOSE c \in m : \A d \in m : c <= d].name
           /\ result.student_actions = << "tried using a for loop", "got confused" >>
                 => result.likely_stuck_point = "Implementing iteration logic"

\* C22 witness: an analysis returned for actions in which keywords of two
\* categories occur, the earlier one only in upper case, and it names the
\* earlier category.
C22_Witness ==
    /\ StuckReturned
    /\ result.student_actions = << "tried using a for loop", "INPUT unclear" >>
    /\ Matching(result.student_actions) = {1, 3}
    /\ result.likely_stuck_point = "Understanding input format"

(***************************************************************************)
(* Improvement suggestions                                                 *)
(***************************************************************************)
\* the word occurs in the text, letter case ignored
OccursAnyCase(text, word) ==
    \E i \in 1..Len(text) :
       /\ i + Len(word) - 1 <= Len(text)
       /\ \A k \in 1..Len(word) :
             LowerChar(CharAt(text, i + k - 1)) = LowerChar(CharAt(word, k))

\* the improvement list of a feedback object (empty when it has none)
ImprovementsNeeded(feedback) ==
    IF HasKey(feedback, "improvements_needed")
    THEN ObjGet(feedback, "improvements_needed", JNull).xs
    ELSE << >>

\* the response is the JSON text of a list of records
IsRecordList(response) ==
    /\ response.form = "json"
    /\ response.val.t = "list"
    /\ \A i \in 1..Len(response.val.xs) : response.val.xs[i].t = "obj"

\* C23: the improvements of a returned evaluation are the feedback's
\* improvement items in their order, each with priority "high" exactly when
\* "critical" occurs in it in any letter case and "medium" otherwise,
\* followed by the code-specific suggestions of the third response when
\* that response is the JSON text of a list of records and by nothing
\* otherwise, the whole cut to its first 5 items.
C23_ImprovementsMerged ==
    EvalReturned =>
       LET needed == ImprovementsNeeded(result.feedback)
           nCode == IF IsRecordList(result.args.r3)
                    THEN Len(result.args.r3.val.xs) ELSE 0
           out == result.improvements
       IN  /\ Len(out) = Min(5, Len(needed) + nCode)
           /\ \A i \in 1..Len(out) :
                 IF i <= Len(needed)
                 THEN /\ out[i].type = "general"
                      /\ out[i].suggestion = needed[i].s
                      /\ out[i].priority \in { "high", "medium" }
                      /\ out[i].priority = "high"
                            <=> OccursAnyCase(needed[i].s, "critical")
                 ELSE /\ out[i].type = JStr("code")
                      /\ out[i].body = result.args.r3.val.xs[i - Len(needed)]

\* C23 witness: four feedback items, one of them marked high, and two code
\* suggestions were merged and cut to five, the fifth being the first code
\* suggestion.
C23_Witness ==
    /\ EvalReturned
    /\ Len(ImprovementsNeeded(result.feedback)) = 4
    /\ IsRecordList(result.args.r3) /\ Len(result.args.r3.val.xs) = 2
    /\ Len(result.improvements) = 5
    /\ \E i \in 1..4 : result.improvements[i].priority = "high"
    /\ result.improvements[5].type = JStr("code")
    /\ result.improvements[5].body = CodeSuggestion(1)

\* six feedback items alone are cut to five when the third response holds
\* no JSON
FeedbackOnlyCut ==
    /\ EvalReturned
    /\ Len(ImprovementsNeeded(result.feedback)) = 6
    /\ result.args.r3.form = "prose"
    /\ Len(result.improvements) = 5

(***************************************************************************)
(* Next-step recommendations                                               *)
(***************************************************************************)
\* the four canned lists, from the top band down
BandLists ==
    << << "Try a harder variation of this problem",
          "Explain your solution to reinforce learning",
          "Help another student with similar problem" >>,
       << "Review the suggested improvements",
          "Try the problem again with optimizations",
          "Practice similar problems" >>,
       << "Review the core concept",
          "Study the solution approach",
          "Try a simpler version first" >>,
       << "Review fundamental concepts",
          "Start with easier problems",
          "Ask for more hints on this problem" >> >>

\* the band of a score: 1 for >= 90, 2 for 70..89, 3 for 50..69, 4 below 50
Band(score) ==
    CASE score >= 90 -> 1
      [] score >= 70 /\ score < 90 -> 2
      [] score >= 50 /\ score < 70 -> 3
      [] score < 50 -> 4

\* C24: the next_steps of a returned evaluation is the fixed list of the
\* band of its score (>= 90, 70..89, 50..69, below 50), each list holding
\* exactly 3 suggestions, and its correctness flag is true exactly when
\* next_steps is one of the two upper-band lists.
C24_NextStepsByBand ==
    EvalReturned =>
       /\ result.next_steps = BandLists[Band(result.score)]
       /\ Len(result.next_steps) = 3
       /\ result.correctness <=> result.next_steps \in { BandLists[1], BandLists[2] }

\* C24 witness: an evaluation returned with the score 70, the lower edge of
\* the second band, carries the second list and is correct.
C24_Witness ==
    /\ EvalReturned
    /\ result.score = 70
    /\ result.next_steps = BandLists[2]
    /\ result.correctness

(***************************************************************************)
(* Question generation                                                     *)
(***************************************************************************)
QuestionCalled == result.op = "generate_question"

IsPrefixOf(prefix, s) ==
    Len(prefix) <= Len(s) /\ SubSeq(s, 1, Len(prefix)) = prefix

\* the response is the JSON text of an object
UsableObject(response) == response.form = "json" /\ response.val.t = "obj"

\* C25: whenever the external call itself returns, generate_question returns
\* a problem record that has an id and carries the requested topic and
\* difficulty, whatever the response text holds, and the record is the
\* fallback problem (id prefixed "fallback_") whenever the response is not
\* the JSON text of an object.
C25_QuestionAlwaysReturned ==
    (QuestionCalled /\ result.response.form # "raise") =>
       /\ result.ok
       /\ result.val.t = "obj"
       /\ HasKey(result.val, "id")
       /\ ObjGet(result.val, "topic", JNull) = JStr(result.topic)
       /\ ObjGet(result.val, "difficulty", JNull) = JStr(result.difficulty)
       /\ ~UsableObject(result.response) =>
             IsPrefixOf("fallback_", ObjGet(result.val, "id", JNull).s)

\* a response that is no JSON at all, or JSON inside prose, yields the
\* fallback problem with the requested topic and difficulty
UnparseableFallsBack ==
    (QuestionCalled /\ result.response.form \in { "empty", "prose", "prose_json" }) =>
       /\ result.ok
       /\ IsPrefixOf("fallback_", ObjGet(result.val, "id", JNull).s)
       /\ ObjGet(result.val, "topic", JNull) = JStr(result.topic)
       /\ ObjGet(result.val, "difficulty", JNull) = JStr(result.difficulty)

\* the response is valid JSON that is no object and the call ended with
\* TypeError
QuestionRaisedOnList ==
    /\ QuestionCalled
    /\ result.response.form = "json" /\ result.response.val.t = "list"
    /\ ~result.ok /\ result.exc = "TypeError"

(***************************************************************************)
(* Failed and id-less hint requests                                        *)
(***************************************************************************)
HintFailed == result.op = "get_hint" /\ result.status = "raised"

\* the stored level of the id in a hint history (0 when it has no entry)
LevelIn(history, problem_id) == DictGet(history, problem_id, 0)

\* the level a get_hint request for the id with the requested level returns
\* when the hint history is the given one
WouldReturn(history, problem_id, hint_level) ==
    Max(LevelIn(history, problem_id), hint_level)

\* C26: a get_hint request whose external call fails does not advance the
\* stored level of its problem id (it creates at most an entry with level 0
\* for a fresh id and changes no other entry), so that a retry with any
\* requested level returns the level the failed request would have returned.
C26_FailedHintRetryable ==
    [][ (HintFailed' /\ ext_failures' = ext_failures + 1) =>
           LET id == result'.problem_id
           IN  /\ LevelIn(hint_history', id) = LevelIn(hint_history, id)
               /\ id \notin DOMAIN hint_history => hint_history'[id] = 0
               /\ \A x \in DOMAIN hint_history : hint_history'[x] = hint_history[x]
               /\ DOMAIN hint_history' = DOMAIN hint_history \cup { id }
               /\ \A l \in RequestLevels :
                     WouldReturn(hint_history', id, l)
                        = WouldReturn(hint_history, id, l) ]_vars

\* C26 witness: a request failed for a problem whose stored level had
\* already been advanced to 2, and the level is still 2.
C26_Witness ==
    /\ HintFailed
    /\ ext_failures = 1
    /\ result.problem_id \in DOMAIN hint_history
    /\ hint_history[result.problem_id] = 2

\* C27: a get_hint call for a problem id changes nothing but the stored hint
\* level of that id: the entries of all other ids, every student progress
\* record and the session history are after the call what they were before.
C27_HintFrame ==
    [][ result'.op = "get_hint" =>
           LET id == result'.problem_id
           IN  /\ DOMAIN hint_history' = DOMAIN hint_history \cup { id }
               /\ \A x \in DOMAIN hint_history \ { id } :
                     hint_history'[x] = hint_history[x]
               /\ student_progress' = student_progress
               /\ session_history' = session_history ]_vars

\* C27 witness: a hint was returned for the problem with an id while the
\* id-less problems have an advanced level of their own, a student has a
\* progress record and the session history has an entry.
C27_Witness ==
    /\ HintReturned
    /\ result.problem_id = "p1"
    /\ "unknown" \in DOMAIN hint_history /\ hint_history["unknown"] >= 2
    /\ DOMAIN student_progress # {}
    /\ Len(session_history) >= 1

\* the problems a caller holds that carry no id
IdLess == { p \in Problems : "id" \notin DOMAIN p }

\* the ids of the problems that carry one
OwnIds == { p.id : p \in Problems \ IdLess }

\* C28: every hint returned for a problem without an id is tracked under the
\* one key "unknown", and after it the stored level that the next request
\* for any id-less problem starts from is the returned level plus one: the
\* id-less problems advance one shared progression.
C28_IdLessShareUnknown ==
    [][ (HintReturned' /\ result'.problem_id \notin OwnIds) =>
           /\ result'.problem_id = "unknown"
           /\ \A q \in IdLess :
                 /\ ProblemId(q) = "unknown"
                 /\ LevelIn(hint_history', ProblemId(q)) = result'.hint_level + 1
                 /\ WouldReturn(hint_history', ProblemId(q), 0)
                       = result'.hint_level + 1 ]_vars

\* C28 witness: a hint for an id-less problem was returned at a level that
\* earlier requests for id-less problems had advanced, while the problem
\* with an id has no entry.
C28_Witness ==
    /\ HintReturned
    /\ result.problem_id = "unknown"
    /\ result.hint_level = 2
    /\ hint_history["unknown"] = 3
    /\ "p1" \notin DOMAIN hint_history
    /\ Cardinality(IdLess) >= 2

(***************************************************************************)
(* Score ceilings                                                          *)
(***************************************************************************)
\* the conceptual-assessment response was returned but is no JSON text, so
\* that the step fell back to its default object
ConceptualFellBack ==
    /\ EvalReturned
    /\ result.args.r1.form \in { "empty", "prose", "prose_json" }

\* C29: whenever the conceptual-assessment step of a returned evaluation
\* fell back to its default object, the assessment approves no approach and
\* lists no edge case, the score is at most 40, the correctness flag is
\* false and next_steps is the lowest-band list, whatever the code and the
\* feedback response are.
C29_FallbackCapsScore ==
    ConceptualFellBack =>
       /\ ~Truthy(ObjGet(result.test_results, "approach_correct", JNull))
       /\ PyLen(ObjGet(result.test_results, "edge_cases_handled", JNull)) = 0
       /\ result.score <= 40
       /\ result.correctness = FALSE
       /\ result.next_steps = BandLists[4]

\* C29 witness: the assessment fell back while the static check found no
\* issue and the feedback names two positives, and the score is exactly 40.
C29_Witness ==
    /\ ConceptualFellBack
    /\ ~result.syntax_check.has_issues
    /\ PyLen(ObjGet(result.feedback, "positives", JList(<< >>))) >= 2
    /\ result.score = 40
    /\ result.next_steps = BandLists[4]

ImportsNote == "Note: Imports detected - ensure they're allowed"

\* C30: for every returned evaluation of code in which "import " occurs,
\* the imports note is listed and counts as an issue: has_issues is true,
\* the 20 syntax points are not awarded (the score is what the assessment
\* and the feedback earn, at most 80) and next_steps is never the top-band
\* list, also when the note is the only entry of the issue list.
C30_ImportsNoteIsIssue ==
    (EvalReturned /\ Occurs(result.args.code, "import ")) =>
       /\ Flagged(result.syntax_check, ImportsNote)
       /\ result.syntax_check.has_issues
       /\ result.score <= 80
       /\ result.score =
             (IF Truthy(ObjGet(result.test_results, "approach_correct", JNull))
              THEN 40 ELSE 0)
           + Min(2, PyLen(ObjGet(result.test_results, "edge_cases_handled",
                                 JList(<< >>)))) * 10
           + Min(2, PyLen(ObjGet(result.feedback, "positives",
                                 JList(<< >>)))) * 10
       /\ result.next_steps # BandLists[1]

\* C30 witness: code whose only static-check entry is the imports note was
\* evaluated with a fully approving assessment and feedback, and the score
\* is 80 with the second-band list.
C30_Witness ==
    /\ EvalReturned
    /\ result.syntax_check.issues = << ImportsNote >>
    /\ result.syntax_check.has_issues
    /\ result.score = 80
    /\ result.next_steps = BandLists[2]

=============================================================================
